---- MODULE Spec2Model ----
(***************************************************************************)
(* Assignly front end: the Dashboard, Analytics, Timeline, Projects,       *)
(* Assignments and EngineerDashboard pages.                                *)
(*                                                                         *)
(* One page component is mounted at a time (react-router renders one child *)
(* route), so the component state of the mounted page is held in one set   *)
(* of variables.  A page mounts, its effect starts the fetch, and the      *)
(* fetch settles with a response drawn from bounded families of snapshots. *)
(* Everything the pages show is a render-time expression over that state   *)
(* and is modelled as an operator.                                         *)
(*                                                                         *)
(* Representation                                                          *)
(*  - an optional field (undefined / null in JavaScript) is a sequence of  *)
(*    length at most one: None is <<>>, Some(x) is <<x>>;                  *)
(*  - an instant is an integer number of half days; a date-only string     *)
(*    parses to UTC midnight, an even number; the clock may read any value;*)
(*  - a JavaScript number that results from a division is a record         *)
(*    [kind, num, den] (kind "finite", "NaN" or "Infinity");               *)
(*  - a JavaScript Set is a sequence without duplicates in insertion order,*)
(*    and so is a plain object used as a map from skill labels to counts   *)
(*    (the labels are ordinary property names).                            *)
(*                                                                         *)
(* Each specification covers the pages one group of properties is about:   *)
(* Spec (capacity), SpecSkills (skill and status analytics), SpecTimeline  *)
(* (calendar, upcoming list, role guards), SpecProjects (durations and     *)
(* progress) and SpecSuitable (the dialog of suitable engineers).          *)
(***************************************************************************)
EXTENDS Integers, Sequences, FiniteSets, TLC

(* ------------------------------ bounds --------------------------------- *)
MaxEngineers == 2
MaxAssignments == 2
MaxProjects == 2
MaxSkillLen == 2
MaxDrift == 1

(* --------------------------- optional values --------------------------- *)
None == <<>>
Some(x) == <<x>>
Opt(S) == {None} \cup {Some(x) : x \in S}

Range(s) == {s[k] : k \in 1..Len(s)}
SeqsUpTo(S, n) == UNION {[1..k -> S] : k \in 0..n}

\* x || d on an optional number: undefined, null, 0 and NaN all give d
OrDefault(x, d) == IF x = None \/ x[1] = 0 THEN d ELSE x[1]
\* x ?? d on an optional value: only undefined and null give d
NullishDefault(x, d) == IF x = None THEN d ELSE x[1]
\* Math.max on two integers
Max(a, b) == IF a >= b THEN a ELSE b

(* --------------------------- JavaScript numbers ------------------------ *)
JsNum(n) == [kind |-> "finite", num |-> n, den |-> 1]
JsNaN == [kind |-> "NaN", num |-> 0, den |-> 1]
JsInfinity == [kind |-> "Infinity", num |-> 1, den |-> 1]
\* a / b for non-negative integers a, b
JsDiv(a, b) ==
  IF b = 0 THEN (IF a = 0 THEN JsNaN ELSE JsInfinity)
  ELSE [kind |-> "finite", num |-> a, den |-> b]
\* x * k for an integer k > 0
JsMul(x, k) == IF x.kind = "finite" THEN [x EXCEPT !.num = @ * k] ELSE x
JsNegInfinity == [kind |-> "-Infinity", num |-> -1, den |-> 1]
\* a / b for integers a, b of either sign; a finite result keeps den > 0
JsDivSigned(a, b) ==
  IF b = 0 THEN (IF a = 0 THEN JsNaN ELSE IF a > 0 THEN JsInfinity ELSE JsNegInfinity)
  ELSE IF b > 0 THEN [kind |-> "finite", num |-> a, den |-> b]
  ELSE [kind |-> "finite", num |-> -a, den |-> -b]
\* Math.max(x, n) and Math.min(x, n) for an integer n: NaN stays NaN
JsMax(x, n) ==
  IF x.kind = "NaN" \/ x.kind = "Infinity" THEN x
  ELSE IF x.kind = "-Infinity" THEN JsNum(n)
  ELSE IF x.num < n * x.den THEN JsNum(n) ELSE x
JsMin(x, n) ==
  IF x.kind = "NaN" \/ x.kind = "-Infinity" THEN x
  ELSE IF x.kind = "Infinity" THEN JsNum(n)
  ELSE IF x.num > n * x.den THEN JsNum(n) ELSE x
\* Math.ceil(a / b) for an integer a and b > 0
JsCeilDiv(a, b) == -((-a) \div b)
\* numeric equality of a JavaScript number with the rational a / b (b > 0)
JsEquals(x, a, b) == x.kind = "finite" /\ x.num * b = a * x.den

(* ------------------------------ input domains -------------------------- *)
\* The responses are drawn from families of snapshots.  Each family varies
\* what one part of the computation reads and keeps the rest fixed.
EngineerIds == 1..MaxEngineers
MaxCapacityValues == {0, 50, 100}
AllocationValues == {30, 60}
\* an assignment that is over (or ends at the first clock value) and one that
\* has not started yet
DateRanges == {[startDate |-> 2, endDate |-> 4], [startDate |-> 6, endDate |-> 6]}
\* an assignment that is running whatever the clock reads
LongRange == [startDate |-> 2, endDate |-> 10]
Nows == {4, 5}

ManagerUser == [_id |-> 0, role |-> "manager", maxCapacity |-> None]
EngineerUsers ==
  {[_id |-> 1, role |-> "engineer", maxCapacity |-> m] : m \in Opt(MaxCapacityValues)}
Users == {ManagerUser} \cup EngineerUsers

\* a populated reference as the assignments API declares it
RecordRefs == {[shape |-> "record", _id |-> e] : e \in EngineerIds}
\* Dashboard.tsx accepts a bare id string as well
AnyRefs == {[shape |-> s, _id |-> e] : s \in {"record", "string"}, e \in EngineerIds}

\* lists of n engineers, the engineer at position i having _id i
EngineerLists(MaxCaps, SkillSets) ==
  UNION {{s \in [1..n -> [_id : EngineerIds, maxCapacity : MaxCaps, skills : SkillSets]] :
            \A i \in 1..n : s[i]._id = i} : n \in 0..MaxEngineers}

ProjectLists(SkillSets) ==
  UNION {{s \in [1..n -> [_id : 1..MaxProjects, status : {"active"},
                          requiredSkills : SkillSets]] :
            \A i \in 1..n : s[i]._id = i} : n \in 0..MaxProjects}

\* assignments that differ in whom they reference and in their dates
DatedAssignments(Refs) ==
  {[engineerId |-> r, allocationPercentage |-> Some(30),
    startDate |-> d.startDate, endDate |-> d.endDate] : r \in Refs, d \in DateRanges}

\* running assignments that differ in whom they reference and in their
\* allocation
AllocatedAssignments ==
  {[engineerId |-> r, allocationPercentage |-> p,
    startDate |-> LongRange.startDate, endDate |-> LongRange.endDate] :
     r \in RecordRefs, p \in Opt(AllocationValues)}

\* running assignments of the first engineer that are all alike: the lists
\* of one or more of them
SnapshotAssignments ==
  {[j \in 1..n |-> [engineerId |-> [shape |-> "record", _id |-> 1],
                     allocationPercentage |-> Some(30),
                     startDate |-> LongRange.startDate,
                     endDate |-> LongRange.endDate]] : n \in 1..MaxAssignments}

\* the values successive new Date() calls can return while one response is
\* processed: reads[i][j] is the call made for engineer i and assignment j;
\* the clock never runs backwards and advances by at most MaxDrift meanwhile
ClockReads(nE, nA) ==
  {[i \in 1..nE |-> [j \in 1..nA |->
      IF (i - 1) * nA + j >= at THEN t0 + d ELSE t0]] :
     t0 \in Nows, d \in 0..MaxDrift, at \in 1..(nE * nA + 1)}

\* the same instant at every call
SteadyClock(nE, nA) == {[i \in 1..nE |-> [j \in 1..nA |-> t0]] : t0 \in Nows}

\* skill labels are free text compared as typed
Skills == {"Go", "Rust"}
SkillLists == Opt(SeqsUpTo(Skills, MaxSkillLen))
FewEngineerSkills == {None, Some(<<"Go">>), Some(<<"go">>)}
FewProjectSkills == {None, Some(<<"Rust">>), Some(<<"Go", "Rust">>)}

\* project.status is a free string; "on-hold" stands for a value outside
\* planning / active / completed
Statuses == {"planning", "active", "completed", "on-hold"}
StatusProjectLists ==
  UNION {{s \in [1..n -> [_id : 1..MaxProjects, status : Statuses,
                          requiredSkills : {None}]] :
            \A i \in 1..n : s[i]._id = i} : n \in 0..MaxProjects}

\* what getAssignmentsByEngineer(id) can answer
OwnAssignments(id) ==
  SeqsUpTo(DatedAssignments({r \in AnyRefs : r._id = id})
             \cup {a \in AllocatedAssignments : a.engineerId._id = id},
           MaxAssignments)

\* assignments of engineer id that end at one of the instants the clock can
\* read first
EndingAssignments(id) ==
  UNION {[1..n -> {[engineerId |-> [shape |-> "record", _id |-> id],
                    allocationPercentage |-> Some(30),
                    startDate |-> 2, endDate |-> e] : e \in Nows}] :
           n \in 1..MaxAssignments}

(* ------------------------- Timeline input domains ---------------------- *)
\* The calendar is scaled down: a month has DaysPerMonth days, day D is the
\* D-th day counted from the epoch and the date-only string of day D parses
\* to the instant 2 * D.  Month m holds the days m * DaysPerMonth + 1 ..
\* (m + 1) * DaysPerMonth.
DaysPerMonth == 3
MaxMonth == 1
\* 30 days and the list length of the "Upcoming Assignments" card
ThirtyDays == 60
UpcomingLimit == 10
\* offset of the browser's time zone from UTC, in half days: behind UTC,
\* UTC, ahead of UTC
TzOffsets == {-1, 0, 1}

ProjectIds == 1..MaxProjects
AnyProjectRefs ==
  {[shape |-> s, _id |-> p] : s \in {"record", "string"}, p \in ProjectIds}

\* days 2 to 4 (across the end of month 0), day 5 alone, and a day more than
\* 30 days after every clock value
TimelineRanges ==
  {[startDate |-> 4, endDate |-> 8], [startDate |-> 10, endDate |-> 10],
   [startDate |-> 70, endDate |-> 70]}

TimelineAssignment(e, p, d) ==
  [engineerId |-> e, projectId |-> p, allocationPercentage |-> Some(30),
   startDate |-> d.startDate, endDate |-> d.endDate]

\* assignments of one engineer on one project that differ in their dates
TimelineDated ==
  {TimelineAssignment([shape |-> "record", _id |-> 1],
                      [shape |-> "record", _id |-> 1], d) : d \in TimelineRanges}

\* more assignments than the card lists, starting at the first clock value
\* or after every clock value
ManyUpcoming ==
  [1..(UpcomingLimit + 2) ->
     {TimelineAssignment([shape |-> "record", _id |-> 1],
                         [shape |-> "record", _id |-> 1],
                         [startDate |-> t, endDate |-> 14]) : t \in {4, 10}}]

\* assignments with one date range that differ in one of their references
TimelineReferring ==
  {TimelineAssignment(e, [shape |-> "string", _id |-> 1],
                      [startDate |-> 4, endDate |-> 8]) : e \in AnyRefs}
    \cup {TimelineAssignment([shape |-> "record", _id |-> 1], q,
                             [startDate |-> 4, endDate |-> 8]) : q \in AnyProjectRefs}

\* what getEngineerCapacity(id) can answer
EngineerCapacities ==
  {[currentCapacity |-> 0, availableCapacity |-> 100],
   [currentCapacity |-> 30, availableCapacity |-> 70]}

\* the values the new Date() calls of one render can return: reads[j] is the
\* call made for the j-th element the filter visits
RenderReads(n) == {c[1] : c \in ClockReads(1, n)}
\* the same, the clock standing still during the render of a long list
SteadyReads(n) == {[j \in 1..n |-> t0] : t0 \in Nows}
ReadsFor(n) == IF n <= MaxAssignments THEN RenderReads(n) ELSE SteadyReads(n)

(* ----------------- Projects and Assignments input domains --------------- *)
\* a day in the unit of the instants (1000 * 60 * 60 * 24 ms)
Day == 2
\* start and end of a project or an assignment as the API sends them, an ISO
\* string that may carry a time of day: a running span, a span of no length,
\* a span that is over, a span of one day and a half, and an end before the
\* start
DateSpans ==
  {[startDate |-> 4, endDate |-> 8], [startDate |-> 5, endDate |-> 5],
   [startDate |-> 2, endDate |-> 4], [startDate |-> 2, endDate |-> 5],
   [startDate |-> 5, endDate |-> 2]}

\* projects that differ in their dates only
DatedProjectLists ==
  UNION {{s \in [1..n -> [_id : ProjectIds, status : {"active"},
                          requiredSkills : {None},
                          startDate : {d.startDate : d \in DateSpans},
                          endDate : {d.endDate : d \in DateSpans}]] :
            \A i \in 1..n :
              /\ s[i]._id = i
              /\ [startDate |-> s[i].startDate, endDate |-> s[i].endDate]
                   \in DateSpans} : n \in 0..MaxProjects}

\* assignments of the Assignments page: the card tests both dates for
\* presence before it shows a duration
SpannedAssignments ==
  {[engineerId |-> [shape |-> "record", _id |-> 1],
    projectId |-> [shape |-> "record", _id |-> 1],
    allocationPercentage |-> Some(30),
    startDate |-> Some(d.startDate), endDate |-> Some(d.endDate)] : d \in DateSpans}
  \cup
  {[engineerId |-> [shape |-> "record", _id |-> 1],
    projectId |-> [shape |-> "record", _id |-> 1],
    allocationPercentage |-> Some(30),
    startDate |-> d[1], endDate |-> d[2]] :
     d \in {<<None, Some(4)>>, <<Some(4), None>>}}

\* projects that differ in their ids only: the lists of the first n of them
PlainProjectLists ==
  {[i \in 1..n |-> [_id |-> i, status |-> "active", requiredSkills |-> None,
                     startDate |-> 4, endDate |-> 8]] : n \in 0..MaxProjects}

\* requests of one kind that may be in flight at a time
MaxInFlight == 2
\* project-list requests one mount of the Projects page may issue
MaxFetches == 3
\* the values of statusFilter: the initial value and the four buttons
StatusFilters == {"all", "active", "planning", "completed"}

\* two projects, the first requiring nothing, an empty list, one skill or two
SkilledProjectLists ==
  {<<[_id |-> 1, status |-> "active", requiredSkills |-> r,
      startDate |-> 4, endDate |-> 8],
     [_id |-> 2, status |-> "active", requiredSkills |-> Some(<<"Go">>),
      startDate |-> 4, endDate |-> 8]>> :
     r \in {None, Some(<<>>), Some(<<"Rust">>), Some(<<"Go", "Rust">>)}}

\* the engineers collection of the backend
SuitableDbs ==
  EngineerLists({None}, {None, Some(<<"Go", "Rust">>), Some(<<"Rust">>)})

\* the backend's answer to GET /projects/:id/suitable-engineers: the
\* engineers with at least one of the project's required skills, in the
\* order of the collection
FindSuitableEngineers(project, db) ==
  LET required == Range(NullishDefault(project.requiredSkills, <<>>))
      f[k \in 0..Len(db)] ==
        IF k = 0 THEN <<>>
        ELSE IF Range(NullishDefault(db[k].skills, <<>>)) \cap required # {}
             THEN Append(f[k - 1], db[k])
             ELSE f[k - 1]
  IN f[Len(db)]

(* ------------------- Assignments page, handler domains ----------------- *)
\* handleCreate, handleEdit and handleDelete, named after the word in their
\* alert: create (creating, showCreateModal), update (updating,
\* showEditModal) and delete (deleting, showDeleteModal)
Handlers == {"create", "update", "delete"}

FailureAlert(h) ==
  CASE h = "create" -> "Failed to create assignment"
    [] h = "update" -> "Failed to update assignment"
    [] h = "delete" -> "Failed to delete assignment"

\* the initial value of createForm and a form that has been filled in
DefaultCreateForm ==
  [engineerId |-> None, projectId |-> None, allocationPercentage |-> 50]
FilledCreateForm ==
  [engineerId |-> Some(1), projectId |-> Some(1), allocationPercentage |-> 30]
\* the initial value of editForm
DefaultEditForm ==
  [allocationPercentage |-> Some(50), startDate |-> None, endDate |-> None]

\* end dates on either side of "a week from now": at the second clock
\* value, and a week after the first and after the second
StatusEnds == {5, 4 + 7 * Day, 5 + 7 * Day}

\* assignments that start at the second clock value and differ in their end
TimelineEnding ==
  {TimelineAssignment([shape |-> "record", _id |-> 1],
                      [shape |-> "record", _id |-> 1],
                      [startDate |-> 5, endDate |-> e]) : e \in StatusEnds}

\* assignments of the Assignments page that differ in their end
EndingAssignmentCards ==
  {[engineerId |-> [shape |-> "record", _id |-> 1],
    projectId |-> [shape |-> "record", _id |-> 1],
    allocationPercentage |-> Some(30),
    startDate |-> Some(2), endDate |-> Some(e)] : e \in StatusEnds}

\* isoString.split("T")[0]: the date of an instant, without its time of day
DateOnly(t) == Day * (t \div Day)

\* what the assignments API answers on the page where assignments are
\* created, edited and deleted: lists of assignments that are all alike
ManagedAssignment ==
  [engineerId |-> [shape |-> "record", _id |-> 1],
   projectId |-> [shape |-> "record", _id |-> 1],
   allocationPercentage |-> Some(30),
   startDate |-> Some(5), endDate |-> Some(8)]
ManagedAssignmentLists ==
  UNION {[1..n -> {ManagedAssignment}] : n \in 0..MaxAssignments}

\* s without its k-th element
RemoveAt(s, k) == SubSeq(s, 1, k - 1) \o SubSeq(s, k + 1, Len(s))

(* ------------------------------- state --------------------------------- *)
VARIABLES user, page, pc, loading, error, engineers, projects, assignments,
          clockReads, view

vars == <<user, page, pc, loading, error, engineers, projects, assignments,
          clockReads, view>>

\* view holds the state of the mounted page beyond the three lists: the
\* month the Timeline shows, its two filters and the time zone its Date
\* objects are built in; the capacity record of the engineer dashboard; the
\* dialog of the Projects page (there selectedProject holds a project), the
\* getSuitableEngineers requests in flight, the alert box that is open, and
\* the engineers collection the backend answers them from; the status filter
\* of the Projects page, its project-list requests in flight (each with the
\* statusFilter of the effect run that issued it and its number in the order
\* of issue), the number of requests issued, and the request whose response
\* setProjects stored last; the dialogs of the Assignments page (show), its
\* flags creating / updating / deleting (busy), how far each of its three
\* handlers has got (idle, mutating: its create / update / delete request is
\* in flight, refreshing: its list request is in flight, alerting: its alert
\* box is open), and its forms
DefaultView ==
  [currentMonth |-> 0, selectedProject |-> None, selectedEngineer |-> None,
   tz |-> 0, capacity |-> None,
   showEngineersModal |-> FALSE, suitableEngineers |-> <<>>,
   loadingEngineers |-> FALSE, pending |-> <<>>, alert |-> "", db |-> <<>>,
   statusFilter |-> "all", requests |-> <<>>, issued |-> 0, projectsOf |-> None,
   show |-> [h \in Handlers |-> FALSE], busy |-> [h \in Handlers |-> FALSE],
   step |-> [h \in Handlers |-> "idle"],
   selectedAssignment |-> None,
   createForm |-> DefaultCreateForm, editForm |-> DefaultEditForm]

(* ---------------- capacity computation (fetchData) --------------------- *)
\* Analytics.tsx reads a.engineerId._id: on a bare string that is undefined
AnalyticsEngineerId(a) ==
  IF a.engineerId.shape = "record" THEN Some(a.engineerId._id) ELSE None

\* Dashboard.tsx getEngineerId: the string itself, or the record's _id
getEngineerId(a) == Some(a.engineerId._id)

\* assigns.filter(a => a.engineerId._id === engineer._id &&
\*                     new Date(a.endDate) >= new Date())
\* reads[j] is the value of the new Date() call made for assigns[j]
AnalyticsEngineerAssignments(engineer, assigns, reads) ==
  LET f[k \in 0..Len(assigns)] ==
        IF k = 0 THEN <<>>
        ELSE IF AnalyticsEngineerId(assigns[k]) = Some(engineer._id)
                /\ assigns[k].endDate >= reads[k]
             THEN Append(f[k - 1], assigns[k])
             ELSE f[k - 1]
  IN f[Len(assigns)]

\* the filter with a start-date test added (start <= now <= end)
DashboardEngineerAssignments_StartTested(engineer, assigns, reads) ==
  LET f[k \in 0..Len(assigns)] ==
        IF k = 0 THEN <<>>
        ELSE IF getEngineerId(assigns[k]) = Some(engineer._id)
                /\ assigns[k].startDate <= reads[k]
                /\ assigns[k].endDate >= reads[k]
             THEN Append(f[k - 1], assigns[k])
             ELSE f[k - 1]
  IN f[Len(assigns)]

\* assigns.filter(a => getEngineerId(a) === engineer._id &&
\*                     new Date(a.endDate) >= new Date())
DashboardEngineerAssignments(engineer, assigns, reads) ==
  LET f[k \in 0..Len(assigns)] ==
        IF k = 0 THEN <<>>
        ELSE IF getEngineerId(assigns[k]) = Some(engineer._id)
                /\ assigns[k].endDate >= reads[k]
             THEN Append(f[k - 1], assigns[k])
             ELSE f[k - 1]
  IN f[Len(assigns)]

\* the sum with an upper clamp at 100
SumAllocation_Clamped(list) ==
  LET f[k \in 0..Len(list)] ==
        IF k = 0 THEN 0
        ELSE f[k - 1] + OrDefault(list[k].allocationPercentage, 0)
  IN IF f[Len(list)] > 100 THEN 100 ELSE f[Len(list)]

\* list.reduce((sum, a) => sum + (a.allocationPercentage || 0), 0)
SumAllocation(list) ==
  LET f[k \in 0..Len(list)] ==
        IF k = 0 THEN 0
        ELSE f[k - 1] + OrDefault(list[k].allocationPercentage, 0)
  IN f[Len(list)]

\* Analytics.tsx: one element of engs.map(...)
AnalyticsWithCapacity(engineer, assigns, reads) ==
  LET engineerAssignments == AnalyticsEngineerAssignments(engineer, assigns, reads)
      currentCapacity == SumAllocation(engineerAssignments)
      maxCapacity == NullishDefault(engineer.maxCapacity, 100)
      availableCapacity == Max(0, maxCapacity - currentCapacity)
  IN [_id |-> engineer._id,
      maxCapacity |-> Some(maxCapacity),
      skills |-> Some(NullishDefault(engineer.skills, <<>>)),
      currentCapacity |-> currentCapacity,
      availableCapacity |-> availableCapacity]

\* Dashboard.tsx: one element of engs.map(...)
DashboardWithCapacity(engineer, assigns, reads) ==
  LET engineerAssignments == DashboardEngineerAssignments(engineer, assigns, reads)
      currentCapacity == SumAllocation(engineerAssignments)
      maxCapacity == OrDefault(engineer.maxCapacity, 100)
      availableCapacity == Max(0, maxCapacity - currentCapacity)
  IN [_id |-> engineer._id,
      maxCapacity |-> engineer.maxCapacity,
      skills |-> engineer.skills,
      currentCapacity |-> currentCapacity,
      availableCapacity |-> availableCapacity,
      assignments |-> engineerAssignments]

(* ----------------------- Analytics.tsx, render ------------------------ *)
\* the component returns before the calculations unless a manager is logged in
AnalyticsRenders == page = "analytics" /\ user # None /\ user[1].role = "manager"

\* the branch of the component's return statements that is taken
AnalyticsShows ==
  IF user = None THEN "nothing"
  ELSE IF user[1].role # "manager" THEN "Access denied. Managers only."
  ELSE IF loading THEN "Loading analytics..."
  ELSE IF error # "" THEN error
  ELSE "content"

\* engs.reduce((sum, e) => sum + e.currentCapacity, 0)
SumCurrentCapacity(engs) ==
  LET f[k \in 0..Len(engs)] ==
        IF k = 0 THEN 0 ELSE f[k - 1] + engs[k].currentCapacity
  IN f[Len(engs)]

\* the mean without the empty-list guard
AverageUtilizationOf_Unguarded(engs) == JsDiv(SumCurrentCapacity(engs), Len(engs))


AverageUtilizationOf(engs) ==
  IF Len(engs) > 0 THEN JsDiv(SumCurrentCapacity(engs), Len(engs)) ELSE JsNum(0)

\* e.currentCapacity > (e.maxCapacity || 100) * 0.9; both sides are scaled by
\* 10, which for integer percentages gives the verdict of the double product
IsOverloaded(e) == 10 * e.currentCapacity > 9 * OrDefault(e.maxCapacity, 100)

OverloadedOf(engs) == Len(SelectSeq(engs, IsOverloaded))

\* the threshold taken inclusively
IsUnderutilized_Inclusive(e) == e.availableCapacity >= 20

\* e.availableCapacity > 20
IsUnderutilized(e) == e.availableCapacity > 20

UnderutilizedOf(engs) == Len(SelectSeq(engs, IsUnderutilized))

averageUtilization == AverageUtilizationOf(engineers)
overloadedEngineers == OverloadedOf(engineers)
underutilizedEngineers == UnderutilizedOf(engineers)

\* Set.prototype.add
SetAdd(set, x) == IF x \in Range(set) THEN set ELSE Append(set, x)

\* list?.forEach(skill => set.add(skill))
AddAll(set, list) ==
  LET l == NullishDefault(list, <<>>)
      f[k \in 0..Len(l)] == IF k = 0 THEN set ELSE SetAdd(f[k - 1], l[k])
  IN f[Len(l)]

\* the Set built from projects.forEach(p => p.requiredSkills?.forEach(add))
RequiredSkillsOf(projs) ==
  LET f[k \in 0..Len(projs)] ==
        IF k = 0 THEN <<>> ELSE AddAll(f[k - 1], projs[k].requiredSkills)
  IN f[Len(projs)]

\* the Set built from engineers.forEach(e => e.skills?.forEach(add))
AvailableSkillsOf(engs) ==
  LET f[k \in 0..Len(engs)] ==
        IF k = 0 THEN <<>> ELSE AddAll(f[k - 1], engs[k].skills)
  IN f[Len(engs)]

\* the difference taken with a case-insensitive comparison
MissingSkillsOf_IgnoreCase(required, available) ==
  LET lower(skill) == IF skill = "Go" THEN "go" ELSE skill
      has(skill) == lower(skill) \in {lower(x) : x \in Range(available)}
      f[k \in 0..Len(required)] ==
        IF k = 0 THEN <<>>
        ELSE IF ~has(required[k]) THEN Append(f[k - 1], required[k]) ELSE f[k - 1]
  IN f[Len(required)]

\* Array.from(requiredSkills).filter(skill => !availableSkills.has(skill))
MissingSkillsOf(required, available) ==
  LET has(skill) == skill \in Range(available)
      f[k \in 0..Len(required)] ==
        IF k = 0 THEN <<>>
        ELSE IF ~has(required[k]) THEN Append(f[k - 1], required[k]) ELSE f[k - 1]
  IN f[Len(required)]

\* (availableSkills.size / requiredSkills.size) * 100
CoverageOf(required, available) == JsMul(JsDiv(Len(available), Len(required)), 100)

\* engineers.filter(engineer => engineer.skills?.includes(skill)).length
EngineersWithSkill(engs, skill) ==
  Cardinality({k \in 1..Len(engs) :
                 skill \in Range(NullishDefault(engs[k].skills, <<>>))})

\* the filter with the threshold taken inclusively (count <= 2)
InsufficientSkillsOf_Inclusive(required, engs) ==
  LET f[k \in 0..Len(required)] ==
        IF k = 0 THEN <<>>
        ELSE IF EngineersWithSkill(engs, required[k]) <= 2
             THEN Append(f[k - 1], required[k])
             ELSE f[k - 1]
  IN f[Len(required)]

\* skillCoverage gets one key per required skill, in the order of the Set;
\* Object.entries(skillCoverage).filter(([, count]) => count < 2)
\*                              .map(([skill]) => skill)
InsufficientSkillsOf(required, engs) ==
  LET f[k \in 0..Len(required)] ==
        IF k = 0 THEN <<>>
        ELSE IF EngineersWithSkill(engs, required[k]) < 2
             THEN Append(f[k - 1], required[k])
             ELSE f[k - 1]
  IN f[Len(required)]

skillGapAnalysis ==
  LET requiredSkills == RequiredSkillsOf(projects)
      availableSkills == AvailableSkillsOf(engineers)
  IN [missingSkills |-> MissingSkillsOf(requiredSkills, availableSkills),
      insufficientSkills |-> InsufficientSkillsOf(requiredSkills, engineers),
      totalRequired |-> Len(requiredSkills),
      totalAvailable |-> Len(availableSkills),
      coverage |-> CoverageOf(requiredSkills, availableSkills)]

\* acc[skill] = (acc[skill] || 0) + 1 on a record kept as a sequence of
\* entries in the order the keys were created
CountSkill(acc, skill) ==
  IF \E k \in 1..Len(acc) : acc[k].skill = skill
  THEN [k \in 1..Len(acc) |->
          IF acc[k].skill = skill THEN [acc[k] EXCEPT !.count = @ + 1] ELSE acc[k]]
  ELSE Append(acc, [skill |-> skill, count |-> 1])

\* project.requiredSkills?.forEach(skill => ...)
CountSkills(acc, list) ==
  LET l == NullishDefault(list, <<>>)
      f[k \in 0..Len(l)] == IF k = 0 THEN acc ELSE CountSkill(f[k - 1], l[k])
  IN f[Len(l)]

\* projects.reduce((acc, project) => ..., {})
SkillDemandOf(projs) ==
  LET f[k \in 0..Len(projs)] ==
        IF k = 0 THEN <<>> ELSE CountSkills(f[k - 1], projs[k].requiredSkills)
  IN f[Len(projs)]

\* entries.sort(([, a], [, b]) => b - a): Array.prototype.sort is stable, so
\* each entry goes behind the entries before it that count at least as much
SortByCountDesc(entries) ==
  LET ins(sorted, x) ==
        LET n == Cardinality({k \in 1..Len(sorted) : sorted[k].count >= x.count})
        IN SubSeq(sorted, 1, n) \o <<x>> \o SubSeq(sorted, n + 1, Len(sorted))
      f[k \in 0..Len(entries)] ==
        IF k = 0 THEN <<>> ELSE ins(f[k - 1], entries[k])
  IN f[Len(entries)]

\* .slice(0, n)
Slice(s, n) == SubSeq(s, 1, IF Len(s) < n THEN Len(s) ELSE n)

skillDemand == SkillDemandOf(projects)
rankedSkills == SortByCountDesc(skillDemand)
topSkills == Slice(rankedSkills, 5)

\* the bucket of completed projects taking every project that is neither
\* active nor planning
ProjectStatusDataOf_CatchAll(projs) ==
  LET count(s) == Cardinality({k \in 1..Len(projs) : projs[k].status = s})
  IN <<count("active"), count("planning"),
       Len(projs) - count("active") - count("planning")>>

\* [projects.filter(p => p.status === "active").length,
\*  projects.filter(p => p.status === "planning").length,
\*  projects.filter(p => p.status === "completed").length]
ProjectStatusDataOf(projs) ==
  LET count(s) == Cardinality({k \in 1..Len(projs) : projs[k].status = s})
  IN <<count("active"), count("planning"), count("completed")>>

projectStatusData == ProjectStatusDataOf(projects)

(* ----------------------- Dashboard.tsx, render ------------------------- *)
\* "Overloaded Engineers" card
DashboardOverloadedOf(engs) == Len(SelectSeq(engs, IsOverloaded))
\* "Available Engineers" card
DashboardAvailableOf(engs) == Len(SelectSeq(engs, IsUnderutilized))

dashboardOverloadedEngineers == DashboardOverloadedOf(engineers)
dashboardAvailableEngineers == DashboardAvailableOf(engineers)

\* engineer view, "Available Capacity" card; reads[k] is the new Date() call
\* made for assignments[k]
EngineerAvailableCapacity(u, assigns, reads) ==
  LET current[k \in 0..Len(assigns)] ==
        IF k = 0 THEN 0
        ELSE IF assigns[k].endDate >= reads[k]
             THEN current[k - 1] + OrDefault(assigns[k].allocationPercentage, 0)
             ELSE current[k - 1]
  IN Max(0, OrDefault(u.maxCapacity, 100) - current[Len(assigns)])

(* ------------------------ Timeline.tsx, render ------------------------- *)
\* the test that reads ._id whatever the reference is: a bare id string has
\* no _id and never equals the selection
RefMatches_RecordOnly(ref, selected) ==
  selected = None \/ (ref.shape = "record" /\ ref._id = selected[1])

\* selected === 'all' || (typeof ref === 'string' ? ref === selected
\*                                                  : ref._id === selected);
\* None stands for the option "all", and a reference of either shape keeps
\* its id in _id
RefMatches(ref, selected) == selected = None \/ ref._id = selected[1]

\* assignments.filter(assignment => projectMatch && engineerMatch)
FilteredAssignmentsOf(assigns, v) ==
  LET f[k \in 0..Len(assigns)] ==
        IF k = 0 THEN <<>>
        ELSE IF RefMatches(assigns[k].projectId, v.selectedProject)
                /\ RefMatches(assigns[k].engineerId, v.selectedEngineer)
             THEN Append(f[k - 1], assigns[k])
             ELSE f[k - 1]
  IN f[Len(assigns)]

\* new Date(year, month, i + 1): midnight of that calendar day in the
\* browser's time zone
DayCellDate(month, i, tz) == 2 * (month * DaysPerMonth + i) - tz

\* the test with the end date excluded
getAssignmentsForDate_EndExclusive(date, list) ==
  LET f[k \in 0..Len(list)] ==
        IF k = 0 THEN <<>>
        ELSE IF date >= list[k].startDate /\ date < list[k].endDate
             THEN Append(f[k - 1], list[k])
             ELSE f[k - 1]
  IN f[Len(list)]

\* list.filter(a => date >= new Date(a.startDate) && date <= new Date(a.endDate))
getAssignmentsForDate(date, list) ==
  LET f[k \in 0..Len(list)] ==
        IF k = 0 THEN <<>>
        ELSE IF date >= list[k].startDate /\ date <= list[k].endDate
             THEN Append(f[k - 1], list[k])
             ELSE f[k - 1]
  IN f[Len(list)]

\* Array.from({length: getDaysInMonth(currentMonth)}, (_, i) => ...): the
\* assignments shown in each day cell of the displayed month
CalendarOf(assigns, v) ==
  [i \in 1..DaysPerMonth |->
     getAssignmentsForDate(DayCellDate(v.currentMonth, i, v.tz),
                           FilteredAssignmentsOf(assigns, v))]

\* list.filter(a => new Date(a.startDate) >= new Date())
StartingFrom(list, reads) ==
  LET f[k \in 0..Len(list)] ==
        IF k = 0 THEN <<>>
        ELSE IF list[k].startDate >= reads[k]
             THEN Append(f[k - 1], list[k])
             ELSE f[k - 1]
  IN f[Len(list)]

\* the sort with the comparison turned round (latest start first)
SortByStart_Descending(list) ==
  LET ins(sorted, x) ==
        LET n == Cardinality({k \in 1..Len(sorted) :
                                sorted[k].startDate >= x.startDate})
        IN SubSeq(sorted, 1, n) \o <<x>> \o SubSeq(sorted, n + 1, Len(sorted))
      f[k \in 0..Len(list)] == IF k = 0 THEN <<>> ELSE ins(f[k - 1], list[k])
  IN f[Len(list)]

\* list.sort((a, b) => new Date(a.startDate).getTime() -
\*                     new Date(b.startDate).getTime()), a stable sort
SortByStart(list) ==
  LET ins(sorted, x) ==
        LET n == Cardinality({k \in 1..Len(sorted) :
                                sorted[k].startDate <= x.startDate})
        IN SubSeq(sorted, 1, n) \o <<x>> \o SubSeq(sorted, n + 1, Len(sorted))
      f[k \in 0..Len(list)] == IF k = 0 THEN <<>> ELSE ins(f[k - 1], list[k])
  IN f[Len(list)]

\* the rows of the "Upcoming Assignments" card
UpcomingOf(assigns, v, reads) ==
  Slice(SortByStart(StartingFrom(FilteredAssignmentsOf(assigns, v), reads)),
        UpcomingLimit)

\* Timeline.tsx getStatusText, now being the value of the call's own
\* new Date(); 7 * 24 * 60 * 60 * 1000 ms are seven days
getStatusTextTimeline(endDate, now) ==
  IF endDate < now THEN "Completed"
  ELSE IF endDate - now < 7 * Day THEN "Ending Soon"
  ELSE "Active"

\* the new Date() of the getStatusText call of the k-th upcoming card: the
\* calls of the cards follow those of the filter over the n assignments; a
\* render whose later calls are not told apart reads the instant of its last
\* call
BadgeRead(reads, n, k) ==
  IF Len(reads) >= n + k THEN reads[n + k] ELSE reads[Len(reads)]

\* the label of the badge of each upcoming card
UpcomingStatusOf(assigns, v, reads) ==
  LET cards == UpcomingOf(assigns, v, reads)
  IN [k \in 1..Len(cards) |->
        getStatusTextTimeline(cards[k].endDate, BadgeRead(reads, Len(assigns), k))]

\* the branch of the component's return statements that is taken
TimelineShows ==
  IF user = None THEN "nothing"
  ELSE IF user[1].role # "manager" THEN "Access denied. Managers only."
  ELSE IF loading THEN "Loading timeline..."
  ELSE IF error # "" THEN error
  ELSE "content"

\* the Timeline shows its calendar and its cards
TimelineRenders ==
  /\ page = "timeline" /\ user # None /\ user[1].role = "manager"
  /\ ~loading /\ error = ""

filteredAssignments == FilteredAssignmentsOf(assignments, view)
calendar == CalendarOf(assignments, view)
upcomingAssignments == UpcomingOf(assignments, view, clockReads)
upcomingStatus == UpcomingStatusOf(assignments, view, clockReads)

(* ------------------------- Projects page, render ----------------------- *)
\* Math.ceil((end.getTime() - start.getTime()) / (1000 * 60 * 60 * 24))
getDuration(startDate, endDate) == JsCeilDiv(endDate - startDate, Day)

\* Math.min(Math.max((elapsed / total) * 100, 0), 100), now being the value
\* of the call's own new Date()
getProgress(startDate, endDate, now) ==
  LET total == endDate - startDate
      elapsed == now - startDate
  IN JsMin(JsMax(JsMul(JsDivSigned(elapsed, total), 100), 0), 100)

\* the Projects page shows its cards
ProjectsRenders == page = "projects" /\ user # None /\ ~loading /\ error = ""

\* per card: the duration, and the progress of the text and of the bar, each
\* from a getProgress call of its own
projectCards ==
  [i \in 1..Len(projects) |->
     [duration |-> getDuration(projects[i].startDate, projects[i].endDate),
      progressText |-> getProgress(projects[i].startDate, projects[i].endDate,
                                   clockReads[i][1]),
      progressBar |-> getProgress(projects[i].startDate, projects[i].endDate,
                                  clockReads[i][2])]]

(* ------------------------ Assignments.tsx, render ---------------------- *)
\* assignment.startDate && assignment.endDate &&
\*   Math.ceil((end.getTime() - start.getTime()) / (1000 * 60 * 60 * 24))
AssignmentDuration(a) ==
  IF a.startDate # None /\ a.endDate # None
  THEN Some(JsCeilDiv(a.endDate[1] - a.startDate[1], Day))
  ELSE None

AssignmentsRenders == page = "assignments" /\ user # None /\ ~loading /\ error = ""

\* getStatusText with both comparisons inclusive
getStatusText_WeekInclusive(endDate, now) ==
  IF endDate # None /\ endDate[1] <= now THEN "Completed"
  ELSE IF endDate # None /\ endDate[1] - now <= 7 * Day THEN "Ending Soon"
  ELSE "Active"

\* Assignments.tsx getStatusText, now being the value of the call's own
\* new Date(); a missing end date makes an Invalid Date, for which both
\* comparisons are false
getStatusText(endDate, now) ==
  IF endDate # None /\ endDate[1] < now THEN "Completed"
  ELSE IF endDate # None /\ endDate[1] - now < 7 * Day THEN "Ending Soon"
  ELSE "Active"

\* the label of the badge of each card; of the two new Date() calls a card
\* makes, the first is that of getStatusColor and the second that of
\* getStatusText
statusTexts ==
  [j \in 1..Len(assignments) |->
     getStatusText(assignments[j].endDate, clockReads[j][2])]

\* Analytics.tsx: new Date(a.endDate) >= new Date(), the test by which an
\* assignment counts towards the current capacity
CountsAsCurrent(endDate, now) == endDate >= now

assignmentDurations == [k \in 1..Len(assignments) |-> AssignmentDuration(assignments[k])]

(* -------------------- EngineerDashboard.tsx, render -------------------- *)
\* Array.prototype.filter, the outcome of the test given per position
RECURSIVE FilterAt(_, _, _)
FilterAt(s, keep, j) ==
  IF j > Len(s) THEN <<>>
  ELSE (IF keep[j] THEN <<s[j]>> ELSE <<>>) \o FilterAt(s, keep, j + 1)

\* assignments.filter(a => new Date(a.endDate) >= new Date()): reads[1][j] is
\* the new Date() of the call made for the j-th assignment
ActiveOf(assigns, reads) ==
  FilterAt(assigns, [j \in 1..Len(assigns) |-> assigns[j].endDate >= reads[1][j]], 1)

\* assignments.filter(a => new Date(a.endDate) < new Date()): reads[2][j] is
\* the new Date() of the call made for the j-th assignment
CompletedOf(assigns, reads) ==
  FilterAt(assigns, [j \in 1..Len(assigns) |-> assigns[j].endDate < reads[2][j]], 1)

activeAssignments == ActiveOf(assignments, clockReads)
completedAssignments == CompletedOf(assignments, clockReads)
\* data of the "Active" / "Completed" chart
assignmentStatusData == <<Len(activeAssignments), Len(completedAssignments)>>

\* the branch of the component's return statements that is taken
EngineerDashboardShows ==
  IF user = None \/ user[1].role # "engineer" THEN "Access denied. Engineers only."
  ELSE IF loading THEN "Loading your dashboard..."
  ELSE IF error # "" THEN error
  ELSE "content"

(* ------------------------------- actions ------------------------------- *)
Init ==
  /\ user = None
  /\ page = "login"
  /\ pc = "idle"
  /\ loading = FALSE
  /\ error = ""
  /\ engineers = <<>>
  /\ projects = <<>>
  /\ assignments = <<>>
  /\ clockReads = <<>>
  /\ view = DefaultView

\* Login.tsx handleSubmit, on success: login(token, user) and navigate
Login ==
  /\ page = "login"
  /\ user = None
  /\ \E u \in Users :
       /\ user' = Some(u)
       /\ page' = IF u.role = "manager" THEN "dashboard" ELSE "assignments"
       /\ pc' = "fetching"
       /\ loading' = TRUE
  /\ UNCHANGED <<error, engineers, projects, assignments, clockReads, view>>

\* route /analytics: the component mounts with its initial state and the
\* effect runs
AnalyticsMount ==
  /\ user # None
  /\ page # "analytics"
  /\ page' = "analytics"
  /\ engineers' = <<>>
  /\ projects' = <<>>
  /\ assignments' = <<>>
  /\ clockReads' = <<>>
  /\ view' = DefaultView
  /\ IF user[1].role # "manager"
     THEN /\ error' = "Access denied. Managers only."
          /\ loading' = FALSE
          /\ pc' = "idle"
     ELSE /\ error' = ""
          /\ loading' = TRUE
          /\ pc' = "fetching"
  /\ UNCHANGED user

\* Promise.all resolved with the snapshot r: capacities are computed and the
\* three lists stored
AnalyticsStore(r) ==
  /\ engineers' = [i \in 1..Len(r.engs) |->
                     AnalyticsWithCapacity(r.engs[i], r.assigns, r.reads[i])]
  /\ projects' = r.projs
  /\ assignments' = r.assigns
  /\ clockReads' = r.reads
  /\ loading' = FALSE
  /\ pc' = "done"
  /\ UNCHANGED <<user, page, error, view>>

\* answered with a snapshot for the capacity computation and the clock values
\* read while it is processed
AnalyticsResolve ==
  /\ page = "analytics"
  /\ pc = "fetching"
  /\ \/ \E e \in EngineerLists({None}, {None}) :
          \E a \in SeqsUpTo(DatedAssignments(RecordRefs), MaxAssignments) :
            \E c \in ClockReads(Len(e), Len(a)) :
              AnalyticsStore([engs |-> e, projs |-> <<>>, assigns |-> a, reads |-> c])
     \/ \E e \in EngineerLists(Opt(MaxCapacityValues), {None}) :
          \E a \in SeqsUpTo(AllocatedAssignments, MaxAssignments) :
            \E c \in SteadyClock(Len(e), Len(a)) :
              AnalyticsStore([engs |-> e, projs |-> <<>>, assigns |-> a, reads |-> c])

\* answered with a snapshot for the skill analysis: no assignments, so no
\* clock is read
AnalyticsResolveSkills ==
  /\ page = "analytics"
  /\ pc = "fetching"
  /\ \/ \E e \in EngineerLists({None}, SkillLists) :
          \E p \in ProjectLists(FewProjectSkills) :
            AnalyticsStore([engs |-> e, projs |-> p, assigns |-> <<>>,
                            reads |-> [i \in 1..Len(e) |-> <<>>]])
     \/ \E e \in EngineerLists({None}, FewEngineerSkills) :
          \E p \in ProjectLists(SkillLists) :
            AnalyticsStore([engs |-> e, projs |-> p, assigns |-> <<>>,
                            reads |-> [i \in 1..Len(e) |-> <<>>]])

\* answered with projects that differ in their status only
AnalyticsResolveStatuses ==
  /\ page = "analytics"
  /\ pc = "fetching"
  /\ \E p \in StatusProjectLists :
       AnalyticsStore([engs |-> <<>>, projs |-> p, assigns |-> <<>>,
                       reads |-> <<>>])

\* answered with a snapshot in which none of the three lists is empty
AnalyticsResolveBatch ==
  /\ page = "analytics"
  /\ pc = "fetching"
  /\ \E e \in EngineerLists({None}, {None}) \ {<<>>} :
       \E p \in ProjectLists({None}) \ {<<>>} :
         \E a \in SnapshotAssignments :
           \E c \in SteadyClock(Len(e), Len(a)) :
             AnalyticsStore([engs |-> e, projs |-> p, assigns |-> a, reads |-> c])

\* the handler that stores the engineers although another request failed
AnalyticsReject_EngineersKept ==
  /\ page = "analytics"
  /\ pc = "fetching"
  /\ \E e \in EngineerLists({None}, {None}) \ {<<>>} :
       engineers' = [i \in 1..Len(e) |-> AnalyticsWithCapacity(e[i], <<>>, <<>>)]
  /\ error' = "Failed to load analytics data"
  /\ loading' = FALSE
  /\ pc' = "done"
  /\ UNCHANGED <<user, page, projects, assignments, clockReads, view>>

\* one of the three requests failed: Promise.all rejects, nothing is stored
AnalyticsReject ==
  /\ page = "analytics"
  /\ pc = "fetching"
  /\ error' = "Failed to load analytics data"
  /\ loading' = FALSE
  /\ pc' = "done"
  /\ UNCHANGED <<user, page, engineers, projects, assignments, clockReads, view>>

\* route /dashboard: the component mounts and the effect runs
DashboardMount ==
  /\ user # None
  /\ page # "dashboard"
  /\ page' = "dashboard"
  /\ engineers' = <<>>
  /\ projects' = <<>>
  /\ assignments' = <<>>
  /\ clockReads' = <<>>
  /\ view' = DefaultView
  /\ error' = ""
  /\ loading' = TRUE
  /\ pc' = "fetching"
  /\ UNCHANGED user

\* manager branch of fetchData, answered with the snapshot r
DashboardStore(r) ==
  /\ engineers' = [i \in 1..Len(r.engs) |->
                     DashboardWithCapacity(r.engs[i], r.assigns, r.reads[i])]
  /\ projects' = r.projs
  /\ assignments' = r.assigns
  /\ clockReads' = r.reads
  /\ loading' = FALSE
  /\ pc' = "done"
  /\ UNCHANGED <<user, page, error, view>>

DashboardResolveManager ==
  /\ page = "dashboard"
  /\ pc = "fetching"
  /\ user[1].role = "manager"
  /\ \/ \E e \in EngineerLists({None}, {None}) :
          \E a \in SeqsUpTo(DatedAssignments(AnyRefs), MaxAssignments) :
            \E c \in ClockReads(Len(e), Len(a)) :
              DashboardStore([engs |-> e, projs |-> <<>>, assigns |-> a, reads |-> c])
     \/ \E e \in EngineerLists(Opt(MaxCapacityValues), {None}) :
          \E a \in SeqsUpTo(AllocatedAssignments, MaxAssignments) :
            \E c \in SteadyClock(Len(e), Len(a)) :
              DashboardStore([engs |-> e, projs |-> <<>>, assigns |-> a, reads |-> c])

\* answered with a snapshot in which none of the three lists is empty
DashboardResolveBatch ==
  /\ page = "dashboard"
  /\ pc = "fetching"
  /\ user[1].role = "manager"
  /\ \E e \in EngineerLists({None}, {None}) \ {<<>>} :
       \E p \in ProjectLists({None}) \ {<<>>} :
         \E a \in SnapshotAssignments :
           \E c \in SteadyClock(Len(e), Len(a)) :
             DashboardStore([engs |-> e, projs |-> p, assigns |-> a, reads |-> c])

\* engineer branch of fetchData: getAssignmentsByEngineer(user._id)
DashboardResolveEngineer ==
  /\ page = "dashboard"
  /\ pc = "fetching"
  /\ user[1].role # "manager"
  /\ \E a \in OwnAssignments(user[1]._id) : assignments' = a
  /\ loading' = FALSE
  /\ pc' = "done"
  /\ UNCHANGED <<user, page, error, engineers, projects, clockReads, view>>

DashboardReject ==
  /\ page = "dashboard"
  /\ pc = "fetching"
  /\ error' = "Failed to load dashboard data"
  /\ loading' = FALSE
  /\ pc' = "done"
  /\ UNCHANGED <<user, page, engineers, projects, assignments, clockReads, view>>

\* the effect without its role test
TimelineMount_Unguarded ==
  /\ user # None
  /\ page # "timeline"
  /\ page' = "timeline"
  /\ engineers' = <<>>
  /\ projects' = <<>>
  /\ assignments' = <<>>
  /\ clockReads' = <<>>
  /\ \E z \in TzOffsets : view' = [DefaultView EXCEPT !.tz = z]
  /\ error' = ""
  /\ loading' = TRUE
  /\ pc' = "fetching"
  /\ UNCHANGED user

\* route /timeline: the component mounts, currentMonth is the month of the
\* clock, and the effect runs
TimelineMount ==
  /\ user # None
  /\ page # "timeline"
  /\ page' = "timeline"
  /\ engineers' = <<>>
  /\ projects' = <<>>
  /\ assignments' = <<>>
  /\ clockReads' = <<>>
  /\ \E z \in TzOffsets : view' = [DefaultView EXCEPT !.tz = z]
  /\ IF user[1].role # "manager"
     THEN /\ error' = "Access denied. Managers only."
          /\ loading' = FALSE
          /\ pc' = "idle"
     ELSE /\ error' = ""
          /\ loading' = TRUE
          /\ pc' = "fetching"
  /\ UNCHANGED user

\* Promise.all resolved with the snapshot r; the render that follows reads
\* the clock
TimelineStore(r) ==
  /\ assignments' = r.assigns
  /\ projects' = r.projs
  /\ engineers' = r.engs
  /\ clockReads' = r.reads
  /\ loading' = FALSE
  /\ pc' = "done"
  /\ UNCHANGED <<user, page, error, view>>

\* answered with assignments that differ in their dates
TimelineResolveDated ==
  /\ page = "timeline"
  /\ pc = "fetching"
  /\ \E a \in SeqsUpTo(TimelineDated, MaxAssignments) :
       \E c \in RenderReads(Len(a)) :
         TimelineStore([assigns |-> a, projs |-> <<>>, engs |-> <<>>, reads |-> c])

\* answered with assignments that end about now or about a week from now;
\* the render reads the clock for the filter and then for every badge
TimelineResolveEnding ==
  /\ page = "timeline"
  /\ pc = "fetching"
  /\ \E a \in SeqsUpTo(TimelineEnding, MaxAssignments) :
       \E c \in RenderReads(2 * Len(a)) :
         TimelineStore([assigns |-> a, projs |-> <<>>, engs |-> <<>>, reads |-> c])

\* answered with more assignments than the upcoming card lists
TimelineResolveMany ==
  /\ page = "timeline"
  /\ pc = "fetching"
  /\ \E a \in ManyUpcoming :
       \E c \in SteadyReads(Len(a)) :
         TimelineStore([assigns |-> a, projs |-> <<>>, engs |-> <<>>, reads |-> c])

\* answered with assignments that differ in their references
TimelineResolveReferring ==
  /\ page = "timeline"
  /\ pc = "fetching"
  /\ \E a \in [1..2 -> TimelineReferring] :
       \E c \in SteadyReads(Len(a)) :
         TimelineStore([assigns |-> a,
                        projs |-> [i \in ProjectIds |->
                                     [_id |-> i, status |-> "active",
                                      requiredSkills |-> None]],
                        engs |-> [i \in EngineerIds |->
                                    [_id |-> i, maxCapacity |-> None,
                                     skills |-> None]],
                        reads |-> c])

TimelineResolve ==
  \/ TimelineResolveDated
  \/ TimelineResolveMany
  \/ TimelineResolveReferring

TimelineReject ==
  /\ page = "timeline"
  /\ pc = "fetching"
  /\ error' = "Failed to load timeline data"
  /\ loading' = FALSE
  /\ pc' = "done"
  /\ UNCHANGED <<user, page, engineers, projects, assignments, clockReads, view>>

\* the project <select>: onChange={e => setSelectedProject(e.target.value)}
SelectProject ==
  /\ TimelineRenders
  /\ \E sel \in {None} \cup {Some(projects[k]._id) : k \in 1..Len(projects)} :
       /\ sel # view.selectedProject
       /\ view' = [view EXCEPT !.selectedProject = sel]
  /\ clockReads' \in ReadsFor(Len(assignments))
  /\ UNCHANGED <<user, page, pc, loading, error, engineers, projects, assignments>>

\* the engineer <select>: onChange={e => setSelectedEngineer(e.target.value)}
SelectEngineer ==
  /\ TimelineRenders
  /\ \E sel \in {None} \cup {Some(engineers[k]._id) : k \in 1..Len(engineers)} :
       /\ sel # view.selectedEngineer
       /\ view' = [view EXCEPT !.selectedEngineer = sel]
  /\ clockReads' \in ReadsFor(Len(assignments))
  /\ UNCHANGED <<user, page, pc, loading, error, engineers, projects, assignments>>

\* button "Previous"
PreviousMonth ==
  /\ TimelineRenders
  /\ view.currentMonth > 0
  /\ view' = [view EXCEPT !.currentMonth = @ - 1]
  /\ clockReads' \in ReadsFor(Len(assignments))
  /\ UNCHANGED <<user, page, pc, loading, error, engineers, projects, assignments>>

\* button "Next"
NextMonth ==
  /\ TimelineRenders
  /\ view.currentMonth < MaxMonth
  /\ view' = [view EXCEPT !.currentMonth = @ + 1]
  /\ clockReads' \in ReadsFor(Len(assignments))
  /\ UNCHANGED <<user, page, pc, loading, error, engineers, projects, assignments>>

\* route /engineer-dashboard: the component mounts and the effect runs
EngineerDashboardMount ==
  /\ user # None
  /\ page # "engineer-dashboard"
  /\ page' = "engineer-dashboard"
  /\ engineers' = <<>>
  /\ projects' = <<>>
  /\ assignments' = <<>>
  /\ clockReads' = <<>>
  /\ view' = DefaultView
  /\ error' = ""
  /\ IF user[1].role # "engineer"
     THEN /\ loading' = FALSE
          /\ pc' = "idle"
     ELSE /\ loading' = TRUE
          /\ pc' = "fetching"
  /\ UNCHANGED user

\* Promise.all([getAssignmentsByEngineer, getEngineerCapacity]) resolved with
\* the assignments a and the capacity c; the render that follows makes the
\* new Date() calls r of the two filters
EngineerDashboardStore(a, c, r) ==
  /\ page = "engineer-dashboard"
  /\ pc = "fetching"
  /\ assignments' = a
  /\ view' = [view EXCEPT !.capacity = Some(c)]
  /\ clockReads' = r
  /\ loading' = FALSE
  /\ pc' = "done"
  /\ UNCHANGED <<user, page, error, engineers, projects>>

\* any assignments of the engineer, the clock standing still during the render
EngineerDashboardResolveOwn ==
  /\ page = "engineer-dashboard"
  /\ pc = "fetching"
  /\ \E a \in OwnAssignments(user[1]._id) :
       \E c \in EngineerCapacities :
         \E r \in SteadyClock(2, Len(a)) : EngineerDashboardStore(a, c, r)

\* assignments that end about now, the clock running during the render
EngineerDashboardResolveEnding ==
  /\ page = "engineer-dashboard"
  /\ pc = "fetching"
  /\ \E a \in EndingAssignments(user[1]._id) :
       \E c \in EngineerCapacities :
         \E r \in ClockReads(2, Len(a)) : EngineerDashboardStore(a, c, r)

EngineerDashboardResolve ==
  \/ EngineerDashboardResolveOwn
  \/ EngineerDashboardResolveEnding

EngineerDashboardReject ==
  /\ page = "engineer-dashboard"
  /\ pc = "fetching"
  /\ error' = "Failed to load dashboard data"
  /\ loading' = FALSE
  /\ pc' = "done"
  /\ UNCHANGED <<user, page, engineers, projects, assignments, clockReads, view>>

\* route /projects: the component mounts and the effect runs
ProjectsMount ==
  /\ user # None
  /\ page # "projects"
  /\ page' = "projects"
  /\ engineers' = <<>>
  /\ projects' = <<>>
  /\ assignments' = <<>>
  /\ clockReads' = <<>>
  /\ view' = [DefaultView EXCEPT !.issued = 1,
                                 !.requests = <<[status |-> "all", seq |-> 1]>>]
  /\ error' = ""
  /\ loading' = TRUE
  /\ pc' = "fetching"
  /\ UNCHANGED user

\* the k-th project-list request in flight has settled; pc tells whether
\* another one is still in flight
Settled(v, k) ==
  [v EXCEPT !.requests = RemoveAt(@, k)]

\* one of the getAllProjectsFiltered requests resolved: setProjects(data) and,
\* in finally, setLoading(false); the render that follows reads the clock
\* twice per card
ProjectsResolve ==
  /\ page = "projects"
  /\ pc = "fetching"
  /\ \E k \in 1..Len(view.requests) :
       /\ view' = [Settled(view, k) EXCEPT !.projectsOf = Some(view.requests[k])]
       /\ pc' = IF Len(view.requests) = 1 THEN "done" ELSE "fetching"
  /\ \E p \in DatedProjectLists :
       /\ projects' = p
       /\ clockReads' \in ClockReads(Len(p), 2)
  /\ loading' = FALSE
  /\ UNCHANGED <<user, page, error, engineers, assignments>>

\* one of the requests failed: setError(...) and, in finally,
\* setLoading(false)
ProjectsReject ==
  /\ page = "projects"
  /\ pc = "fetching"
  /\ \E k \in 1..Len(view.requests) :
       /\ view' = Settled(view, k)
       /\ pc' = IF Len(view.requests) = 1 THEN "done" ELSE "fetching"
  /\ error' = "Failed to load projects"
  /\ loading' = FALSE
  /\ UNCHANGED <<user, page, engineers, projects, assignments, clockReads>>

\* answered with projects that differ in their required skills
ProjectsResolveSkilled ==
  /\ page = "projects"
  /\ pc = "fetching"
  /\ \E p \in SkilledProjectLists :
       /\ projects' = p
       /\ clockReads' \in SteadyClock(Len(p), 2)
  /\ \E d \in SuitableDbs : \E k \in 1..Len(view.requests) :
       /\ view' = [Settled(view, k) EXCEPT !.db = d,
                                          !.projectsOf = Some(view.requests[k])]
       /\ pc' = IF Len(view.requests) = 1 THEN "done" ELSE "fetching"
  /\ loading' = FALSE
  /\ UNCHANGED <<user, page, error, engineers, assignments>>

\* answered with projects that differ in their ids only
ProjectsResolvePlain ==
  /\ page = "projects"
  /\ pc = "fetching"
  /\ \E k \in 1..Len(view.requests) :
       /\ view' = [Settled(view, k) EXCEPT !.projectsOf = Some(view.requests[k])]
       /\ pc' = IF Len(view.requests) = 1 THEN "done" ELSE "fetching"
  /\ \E p \in PlainProjectLists :
       /\ projects' = p
       /\ clockReads' \in SteadyClock(Len(p), 2)
  /\ loading' = FALSE
  /\ UNCHANGED <<user, page, error, engineers, assignments>>

\* the click that sets the filter and nothing else
SelectStatus_NoRefetchGate ==
  /\ ProjectsRenders
  /\ ~view.showEngineersModal /\ view.alert = ""
  /\ view.issued < MaxFetches
  /\ Len(view.requests) < MaxInFlight
  /\ \E f \in StatusFilters \ {view.statusFilter} :
       view' = [view EXCEPT !.statusFilter = f,
                            !.issued = @ + 1,
                            !.requests = Append(@, [status |-> f,
                                                    seq |-> view.issued + 1])]
  /\ pc' = "fetching"
  /\ UNCHANGED <<user, page, loading, error, engineers, projects, assignments,
                 clockReads>>

\* one of the buttons All / Active / Planning / Completed:
\* setStatusFilter(f); statusFilter has changed, so the effect runs again:
\* setLoading(true) and a getAllProjectsFiltered request with the new filter
SelectStatus ==
  /\ ProjectsRenders
  /\ ~view.showEngineersModal /\ view.alert = ""
  /\ view.issued < MaxFetches
  /\ Len(view.requests) < MaxInFlight
  /\ \E f \in StatusFilters \ {view.statusFilter} :
       view' = [view EXCEPT !.statusFilter = f,
                            !.issued = @ + 1,
                            !.requests = Append(@, [status |-> f,
                                                    seq |-> view.issued + 1])]
  /\ loading' = TRUE
  /\ pc' = "fetching"
  /\ UNCHANGED <<user, page, error, engineers, projects, assignments, clockReads>>

\* handleViewEngineers(project), up to the await; the dialog covers the page
\* while it is open
ViewEngineers ==
  /\ ProjectsRenders
  /\ user[1].role = "manager"
  /\ ~view.showEngineersModal
  /\ view.alert = ""
  /\ Len(view.pending) < MaxInFlight
  /\ \E i \in 1..Len(projects) :
       view' = [view EXCEPT !.selectedProject = Some(projects[i]),
                            !.showEngineersModal = TRUE,
                            !.loadingEngineers = TRUE,
                            !.pending = Append(@, projects[i])]
  /\ UNCHANGED <<user, page, pc, loading, error, engineers, projects,
                 assignments, clockReads>>

\* <Dialog onOpenChange={setShowEngineersModal}>: the dialog is closed
CloseEngineersModal ==
  /\ page = "projects"
  /\ view.showEngineersModal
  /\ view.alert = ""
  /\ view' = [view EXCEPT !.showEngineersModal = FALSE]
  /\ UNCHANGED <<user, page, pc, loading, error, engineers, projects,
                 assignments, clockReads>>

\* the handler that leaves the list as it was
ViewEngineersResolve_Forgotten ==
  /\ page = "projects"
  /\ view.alert = ""
  /\ \E k \in 1..Len(view.pending) :
       view' = [view EXCEPT !.loadingEngineers = FALSE,
                            !.pending = RemoveAt(@, k)]
  /\ UNCHANGED <<user, page, pc, loading, error, engineers, projects,
                 assignments, clockReads>>

\* one of the requests in flight is answered: setSuitableEngineers(engineers)
\* and, in finally, setLoadingEngineers(false)
ViewEngineersResolve ==
  /\ page = "projects"
  /\ view.alert = ""
  /\ \E k \in 1..Len(view.pending) :
       view' = [view EXCEPT !.suitableEngineers =
                              FindSuitableEngineers(view.pending[k], view.db),
                            !.loadingEngineers = FALSE,
                            !.pending = RemoveAt(@, k)]
  /\ UNCHANGED <<user, page, pc, loading, error, engineers, projects,
                 assignments, clockReads>>

\* one of the requests in flight fails: alert(...), which blocks the page
ViewEngineersReject ==
  /\ page = "projects"
  /\ view.alert = ""
  /\ \E k \in 1..Len(view.pending) :
       view' = [view EXCEPT !.alert = "Failed to load suitable engineers",
                            !.pending = RemoveAt(@, k)]
  /\ UNCHANGED <<user, page, pc, loading, error, engineers, projects,
                 assignments, clockReads>>

\* the alert box is dismissed and the handler goes on to its finally
DismissAlert ==
  /\ page = "projects"
  /\ view.alert # ""
  /\ view' = [view EXCEPT !.alert = "", !.loadingEngineers = FALSE]
  /\ UNCHANGED <<user, page, pc, loading, error, engineers, projects,
                 assignments, clockReads>>

\* route /assignments, reached from another page
AssignmentsMount ==
  /\ user # None
  /\ page \notin {"assignments", "login"}
  /\ page' = "assignments"
  /\ engineers' = <<>>
  /\ projects' = <<>>
  /\ assignments' = <<>>
  /\ clockReads' = <<>>
  /\ view' = DefaultView
  /\ error' = ""
  /\ loading' = TRUE
  /\ pc' = "fetching"
  /\ UNCHANGED user

\* fetchData ran to its end: a manager gets the three lists, an engineer the
\* assignments alone
AssignmentsResolve ==
  /\ page = "assignments"
  /\ pc = "fetching"
  /\ \E a \in SeqsUpTo(SpannedAssignments, MaxAssignments) : assignments' = a
  /\ IF user[1].role = "manager"
     THEN engineers' \in EngineerLists({None}, {None})
     ELSE engineers' = engineers
  /\ loading' = FALSE
  /\ pc' = "done"
  /\ UNCHANGED <<user, page, error, projects, clockReads, view>>

\* the catch without the finally that follows it
AssignmentsReject_NoFinally ==
  /\ page = "assignments"
  /\ pc = "fetching"
  /\ error' = "Failed to load assignments"
  /\ pc' = "done"
  /\ UNCHANGED <<user, page, loading, engineers, projects, assignments,
                 clockReads, view>>

\* one of the requests of fetchData failed: setError(...) and, in finally,
\* setLoading(false)
AssignmentsReject ==
  /\ page = "assignments"
  /\ pc = "fetching"
  /\ error' = "Failed to load assignments"
  /\ loading' = FALSE
  /\ pc' = "done"
  /\ UNCHANGED <<user, page, engineers, projects, assignments, clockReads, view>>

\* fetchData answered with a list of assignments that are all alike
AssignmentsResolveManaged ==
  /\ page = "assignments"
  /\ pc = "fetching"
  /\ assignments' \in ManagedAssignmentLists
  /\ IF user[1].role = "manager"
     THEN engineers' = <<[_id |-> 1, maxCapacity |-> None, skills |-> None]>>
     ELSE engineers' = engineers
  /\ loading' = FALSE
  /\ pc' = "done"
  /\ UNCHANGED <<user, page, error, projects, clockReads, view>>

\* fetchData answered with assignments that end about now or about a week
\* from now; the render that follows reads the clock for every badge
AssignmentsResolveEnding ==
  /\ page = "assignments"
  /\ pc = "fetching"
  /\ \E a \in SeqsUpTo(EndingAssignmentCards, MaxAssignments) :
       /\ assignments' = a
       /\ clockReads' \in ClockReads(Len(a), 2)
  /\ IF user[1].role = "manager"
     THEN engineers' = <<[_id |-> 1, maxCapacity |-> None, skills |-> None]>>
     ELSE engineers' = engineers
  /\ loading' = FALSE
  /\ pc' = "done"
  /\ UNCHANGED <<user, page, error, projects, view>>

\* the page shows its buttons to a manager, and no alert box blocks it
AssignmentsManaged ==
  /\ AssignmentsRenders
  /\ user[1].role = "manager"
  /\ view.alert = ""

\* no dialog covers the page
NoModal == \A h \in Handlers : ~view.show[h]

\* button "New Assignment": setShowCreateModal(true)
OpenCreateModal ==
  /\ AssignmentsManaged
  /\ NoModal
  /\ view' = [view EXCEPT !.show["create"] = TRUE]
  /\ UNCHANGED <<user, page, pc, loading, error, engineers, projects,
                 assignments, clockReads>>

\* handleEngineerChange and the other change handlers of the create form
handleCreateFormChange ==
  /\ AssignmentsManaged
  /\ view.show["create"]
  /\ view.createForm # FilledCreateForm
  /\ view' = [view EXCEPT !.createForm = FilledCreateForm]
  /\ UNCHANGED <<user, page, pc, loading, error, engineers, projects,
                 assignments, clockReads>>

\* openEditModal(assignment)
openEditModal ==
  /\ AssignmentsManaged
  /\ NoModal
  /\ \E k \in 1..Len(assignments) :
       view' = [view EXCEPT
                  !.selectedAssignment = Some(assignments[k]),
                  !.editForm =
                    [allocationPercentage |-> assignments[k].allocationPercentage,
                     startDate |-> Some(DateOnly(assignments[k].startDate[1])),
                     endDate |-> Some(DateOnly(assignments[k].endDate[1]))],
                  !.show["update"] = TRUE]
  /\ UNCHANGED <<user, page, pc, loading, error, engineers, projects,
                 assignments, clockReads>>

\* openDeleteModal(assignment)
openDeleteModal ==
  /\ AssignmentsManaged
  /\ NoModal
  /\ \E k \in 1..Len(assignments) :
       view' = [view EXCEPT !.selectedAssignment = Some(assignments[k]),
                            !.show["delete"] = TRUE]
  /\ UNCHANGED <<user, page, pc, loading, error, engineers, projects,
                 assignments, clockReads>>

\* <Dialog onOpenChange={setShow...Modal}> and the Cancel button: the dialog
\* that is open is closed
CloseAssignmentModal ==
  /\ AssignmentsManaged
  /\ \E h \in Handlers :
       /\ view.show[h]
       /\ view' = [view EXCEPT !.show[h] = FALSE]
  /\ UNCHANGED <<user, page, pc, loading, error, engineers, projects,
                 assignments, clockReads>>

\* a handler up to its first await: the flag is set and the request sent;
\* the submit button is disabled while the flag is set
Submit(h) ==
  /\ AssignmentsManaged
  /\ view.show[h]
  /\ ~view.busy[h]
  /\ view' = [view EXCEPT !.busy[h] = TRUE, !.step[h] = "mutating"]
  /\ UNCHANGED <<user, page, pc, loading, error, engineers, projects,
                 assignments, clockReads>>

handleCreate == Submit("create")

\* if (!selectedAssignment || !user) return;
handleEdit == view.selectedAssignment # None /\ Submit("update")

handleDelete == view.selectedAssignment # None /\ Submit("delete")

\* createAssignment / updateAssignment / deleteAssignment resolved: the
\* dialog is closed, the form reset or the selection cleared, and the list
\* requested again
MutationResolve ==
  /\ page = "assignments"
  /\ view.alert = ""
  /\ \E h \in Handlers :
       /\ view.step[h] = "mutating"
       /\ view' = IF h = "create"
                  THEN [view EXCEPT !.show[h] = FALSE,
                                    !.createForm = DefaultCreateForm,
                                    !.step[h] = "refreshing"]
                  ELSE [view EXCEPT !.show[h] = FALSE,
                                    !.selectedAssignment = None,
                                    !.step[h] = "refreshing"]
  /\ UNCHANGED <<user, page, pc, loading, error, engineers, projects,
                 assignments, clockReads>>

\* createAssignment / updateAssignment / deleteAssignment rejected: catch
\* raises the alert, which blocks the page
MutationReject ==
  /\ page = "assignments"
  /\ view.alert = ""
  /\ \E h \in Handlers :
       /\ view.step[h] = "mutating"
       /\ view' = [view EXCEPT !.alert = FailureAlert(h), !.step[h] = "alerting"]
  /\ UNCHANGED <<user, page, pc, loading, error, engineers, projects,
                 assignments, clockReads>>

\* the list request of a handler resolved: setAssignments(data) and, in
\* finally, the flag is cleared
RefreshResolve ==
  /\ page = "assignments"
  /\ view.alert = ""
  /\ \E h \in Handlers :
       /\ view.step[h] = "refreshing"
       /\ view' = [view EXCEPT !.busy[h] = FALSE, !.step[h] = "idle"]
  /\ assignments' \in ManagedAssignmentLists
  /\ UNCHANGED <<user, page, pc, loading, error, engineers, projects, clockReads>>

\* the list request of a handler rejected: the same catch raises the same
\* alert
RefreshReject ==
  /\ page = "assignments"
  /\ view.alert = ""
  /\ \E h \in Handlers :
       /\ view.step[h] = "refreshing"
       /\ view' = [view EXCEPT !.alert = FailureAlert(h), !.step[h] = "alerting"]
  /\ UNCHANGED <<user, page, pc, loading, error, engineers, projects,
                 assignments, clockReads>>

\* the alert box is dismissed and the handler goes on to its finally
DismissAssignmentAlert ==
  /\ page = "assignments"
  /\ view.alert # ""
  /\ \E h \in Handlers :
       /\ view.step[h] = "alerting"
       /\ view' = [view EXCEPT !.alert = "", !.busy[h] = FALSE, !.step[h] = "idle"]
  /\ UNCHANGED <<user, page, pc, loading, error, engineers, projects,
                 assignments, clockReads>>

Next ==
  \/ Login
  \/ AnalyticsMount
  \/ AnalyticsResolve
  \/ AnalyticsReject
  \/ DashboardMount
  \/ DashboardResolveManager
  \/ DashboardResolveEngineer
  \/ DashboardReject

Spec == Init /\ [][Next]_vars

\* the Analytics page answered with the snapshots of the skill analysis
NextSkills ==
  \/ Login
  \/ AnalyticsMount
  \/ AnalyticsResolveSkills
  \/ AnalyticsResolveStatuses
  \/ AnalyticsReject

SpecSkills == Init /\ [][NextSkills]_vars

\* the Timeline, with the two other pages that guard themselves by role
NextTimeline ==
  \/ Login
  \/ TimelineMount
  \/ TimelineResolve
  \/ TimelineReject
  \/ SelectProject
  \/ SelectEngineer
  \/ PreviousMonth
  \/ NextMonth
  \/ AnalyticsMount
  \/ AnalyticsResolveStatuses
  \/ AnalyticsReject
  \/ EngineerDashboardMount
  \/ EngineerDashboardResolve
  \/ EngineerDashboardReject

SpecTimeline == Init /\ [][NextTimeline]_vars

\* the engineer's own dashboard
NextEngineer ==
  \/ Login
  \/ EngineerDashboardMount
  \/ EngineerDashboardResolveOwn
  \/ EngineerDashboardResolveEnding
  \/ EngineerDashboardReject
  \/ DashboardMount
  \/ DashboardResolveEngineer
  \/ DashboardReject

SpecEngineer == Init /\ [][NextEngineer]_vars

\* the pages that show a status badge per assignment
NextStatus ==
  \/ Login
  \/ AssignmentsMount
  \/ AssignmentsResolveEnding
  \/ AssignmentsReject
  \/ TimelineMount
  \/ TimelineResolveEnding
  \/ TimelineReject

SpecStatus == Init /\ [][NextStatus]_vars

\* the pages that show durations and progress
NextProjects ==
  \/ Login
  \/ ProjectsMount
  \/ ProjectsResolve
  \/ ProjectsReject
  \/ AssignmentsMount
  \/ AssignmentsResolve
  \/ AssignmentsReject

SpecProjects == Init /\ [][NextProjects]_vars

\* the two pages that load the snapshot of engineers, projects and
\* assignments
NextSnapshot ==
  \/ Login
  \/ AnalyticsMount
  \/ AnalyticsResolveBatch
  \/ AnalyticsReject
  \/ DashboardMount
  \/ DashboardResolveBatch
  \/ DashboardResolveEngineer
  \/ DashboardReject

SpecSnapshot == Init /\ [][NextSnapshot]_vars

\* the Projects page with its status filter
NextRefetch ==
  \/ Login
  \/ ProjectsMount
  \/ SelectStatus
  \/ ProjectsResolvePlain
  \/ ProjectsReject

SpecRefetch == Init /\ [][NextRefetch]_vars

\* the Assignments page with its three handlers
NextHandlers ==
  \/ Login
  \/ AssignmentsMount
  \/ AssignmentsResolveManaged
  \/ AssignmentsReject
  \/ DashboardMount
  \/ DashboardReject
  \/ OpenCreateModal
  \/ handleCreateFormChange
  \/ openEditModal
  \/ openDeleteModal
  \/ CloseAssignmentModal
  \/ handleCreate
  \/ handleEdit
  \/ handleDelete
  \/ MutationResolve
  \/ MutationReject
  \/ RefreshResolve
  \/ RefreshReject
  \/ DismissAssignmentAlert

SpecHandlers == Init /\ [][NextHandlers]_vars

\* a request of the mounted page's fetch settles
SettleFetch ==
  /\ pc = "fetching"
  /\ \/ AnalyticsResolveStatuses
     \/ AnalyticsReject
     \/ DashboardResolveBatch
     \/ DashboardResolveEngineer
     \/ DashboardReject
     \/ TimelineResolveDated
     \/ TimelineReject
     \/ EngineerDashboardResolveOwn
     \/ EngineerDashboardReject
     \/ ProjectsResolvePlain
     \/ ProjectsReject
     \/ AssignmentsResolveManaged
     \/ AssignmentsReject

\* all six pages, each with its fetch, and the handlers of the Assignments
\* page
NextLive ==
  \/ Login
  \/ AnalyticsMount
  \/ DashboardMount
  \/ TimelineMount
  \/ EngineerDashboardMount
  \/ ProjectsMount
  \/ AssignmentsMount
  \/ SettleFetch
  \/ SelectStatus
  \/ OpenCreateModal
  \/ handleCreateFormChange
  \/ openEditModal
  \/ openDeleteModal
  \/ CloseAssignmentModal
  \/ handleCreate
  \/ handleEdit
  \/ handleDelete
  \/ MutationResolve
  \/ MutationReject
  \/ RefreshResolve
  \/ RefreshReject
  \/ DismissAssignmentAlert

\* every request settles sooner or later: the fetch of the mounted page does
\* not stay in flight for ever
SpecLive == Init /\ [][NextLive]_vars /\ WF_vars(SettleFetch)

\* the Projects page with its dialog of suitable engineers
NextSuitable ==
  \/ Login
  \/ ProjectsMount
  \/ ProjectsResolveSkilled
  \/ ProjectsReject
  \/ ViewEngineers
  \/ CloseEngineersModal
  \/ ViewEngineersResolve
  \/ ViewEngineersReject
  \/ DismissAlert

SpecSuitable == Init /\ [][NextSuitable]_vars

(* =============================== claims ================================ *)
\* the sum of val[j] over the indices j of J
RECURSIVE SumOver(_, _)
SumOver(J, val) ==
  IF J = {} THEN 0
  ELSE LET j == CHOOSE x \in J : TRUE IN val[j] + SumOver(J \ {j}, val)

\* the indices of the stored assignments that count as current for the
\* engineer at position i: the reference names the engineer and the end date
\* is on or after the instant read for that test
CurrentIdx(i) ==
  {j \in 1..Len(assignments) :
     /\ assignments[j].engineerId._id = engineers[i]._id
     /\ assignments[j].endDate >= clockReads[i][j]}

\* the elements of s at the indices of J, in list order
SubSeqAt(s, J) ==
  [k \in 1..Cardinality(J) |->
     s[CHOOSE j \in J : Cardinality({x \in J : x <= j}) = k]]

Loaded == page \in {"analytics", "dashboard"} /\ pc = "done" /\ error = ""

\* C1: on both manager pages every engineer's availableCapacity equals
\* max(0, maxCapacity - currentCapacity), with maxCapacity 100 only when the
\* field is absent, and is never negative
C1_AvailableCapacity ==
  Loaded =>
    \A i \in 1..Len(engineers) :
      LET e == engineers[i]
          rest == NullishDefault(e.maxCapacity, 100) - e.currentCapacity
      IN /\ e.availableCapacity = (IF rest > 0 THEN rest ELSE 0)
         /\ e.availableCapacity >= 0

\* C2: an engineer that no assignment references has currentCapacity 0 and
\* availableCapacity equal to its maxCapacity, whatever that value is; the
\* same for the engineer's own "Available Capacity" card
C2_UnassignedEngineer ==
  /\ Loaded =>
       \A i \in 1..Len(engineers) :
         (\A j \in 1..Len(assignments) :
             assignments[j].engineerId._id # engineers[i]._id)
         => /\ engineers[i].currentCapacity = 0
            /\ engineers[i].availableCapacity =
                 NullishDefault(engineers[i].maxCapacity, 100)
  /\ (page = "dashboard" /\ pc = "done" /\ error = ""
        /\ user[1].role = "engineer" /\ assignments = <<>>)
     => EngineerAvailableCapacity(user[1], assignments, <<>>) =
          NullishDefault(user[1].maxCapacity, 100)

C4_ExactSum ==
  Loaded =>
    \A i \in 1..Len(engineers) :
      engineers[i].currentCapacity =
        SumOver(CurrentIdx(i),
                [j \in 1..Len(assignments) |->
                   IF assignments[j].allocationPercentage = None THEN 0
                   ELSE assignments[j].allocationPercentage[1]])

\* C4 witness: an engineer allocated beyond its maximum capacity of 100
C4_Witness ==
  /\ Loaded
  /\ \E i \in 1..Len(engineers) :
       /\ engineers[i].maxCapacity = Some(100)
       /\ engineers[i].currentCapacity > 100

\* C5: two engineers of one computation with the same maxCapacity and the
\* same allocations and dates get the same currentCapacity and
\* availableCapacity
C5_IdenticalEngineers ==
  Loaded =>
    \A i, k \in 1..Len(engineers) :
      LET profile(j) == <<assignments[j].allocationPercentage,
                          assignments[j].startDate, assignments[j].endDate>>
          of(n) == {j \in 1..Len(assignments) :
                      assignments[j].engineerId._id = engineers[n]._id}
          same == \A j \in of(i) \cup of(k) :
                    Cardinality({x \in of(i) : profile(x) = profile(j)})
                      = Cardinality({x \in of(k) : profile(x) = profile(j)})
      IN (engineers[i].maxCapacity = engineers[k].maxCapacity /\ same)
         => /\ engineers[i].currentCapacity = engineers[k].currentCapacity
            /\ engineers[i].availableCapacity = engineers[k].availableCapacity

\* C6: the overloaded count is the number of engineers whose currentCapacity
\* is strictly above 90% of their maxCapacity (100 when absent)
C6_OverloadedCount ==
  Loaded =>
    LET over == {i \in 1..Len(engineers) :
                   10 * engineers[i].currentCapacity
                     > 9 * NullishDefault(engineers[i].maxCapacity, 100)}
    IN /\ page = "analytics" => overloadedEngineers = Cardinality(over)
       /\ page = "dashboard" => dashboardOverloadedEngineers = Cardinality(over)

\* C7: the available / underutilized count is the number of engineers whose
\* availableCapacity is strictly above 20
C7_AvailableCount ==
  Loaded =>
    LET avail == {i \in 1..Len(engineers) : engineers[i].availableCapacity >= 21}
    IN /\ page = "analytics" => underutilizedEngineers = Cardinality(avail)
       /\ page = "dashboard" => dashboardAvailableEngineers = Cardinality(avail)

\* C7 witness: an engineer with availableCapacity exactly 20 next to one that
\* is counted
C7_Witness ==
  /\ Loaded
  /\ \E i, k \in 1..Len(engineers) :
       /\ engineers[i].availableCapacity = 20
       /\ engineers[k].availableCapacity > 20
  /\ (IF page = "analytics" THEN underutilizedEngineers
      ELSE dashboardAvailableEngineers) = 1

\* C8: averageUtilization is the sum of currentCapacity divided by the number
\* of engineers, and 0 for an empty list, where overloadedEngineers is 0 too
C8_AverageUtilization ==
  AnalyticsRenders =>
    IF Len(engineers) = 0
    THEN averageUtilization = JsNum(0) /\ overloadedEngineers = 0
    ELSE JsEquals(averageUtilization,
                  SumOver(1..Len(engineers),
                          [i \in 1..Len(engineers) |-> engineers[i].currentCapacity]),
                  Len(engineers))

\* C8 witness: the analytics were loaded from a snapshot without engineers
C8_Witness ==
  /\ page = "analytics" /\ pc = "done" /\ error = ""
  /\ Len(engineers) = 0
  /\ averageUtilization.kind = "finite"

\* C9: the coverage shown once the analytics are loaded is
\* |Available| / |Required| * 100, and 0 when no project requires any skill
C9_Coverage ==
  (AnalyticsRenders /\ pc = "done" /\ error = "") =>
    LET Required == UNION {Range(NullishDefault(projects[k].requiredSkills, <<>>)) :
                             k \in 1..Len(projects)}
        Available == UNION {Range(NullishDefault(engineers[k].skills, <<>>)) :
                              k \in 1..Len(engineers)}
    IN IF Required = {}
       THEN skillGapAnalysis.coverage = JsNum(0)
       ELSE JsEquals(skillGapAnalysis.coverage,
                     100 * Cardinality(Available), Cardinality(Required))

\* C10: missingSkills is the set difference Required - Available under
\* case-sensitive equality; Required {Go, Rust} and Available {Go} give
\* missingSkills {Rust} and a coverage of 50
C10_MissingSkills ==
  AnalyticsRenders =>
    LET Required == UNION {Range(NullishDefault(projects[k].requiredSkills, <<>>)) :
                             k \in 1..Len(projects)}
        Available == UNION {Range(NullishDefault(engineers[k].skills, <<>>)) :
                              k \in 1..Len(engineers)}
        missing == skillGapAnalysis.missingSkills
    IN /\ Range(missing) = Required \ Available
       /\ Len(missing) = Cardinality(Required \ Available)
       /\ (Required = {"Go", "Rust"} /\ Available = {"Go"})
          => /\ missing = <<"Rust">>
             /\ JsEquals(skillGapAnalysis.coverage, 50, 1)

\* C10 witness: the projects require Go and Rust and the team offers Go only
C10_Witness ==
  /\ page = "analytics" /\ pc = "done" /\ error = ""
  /\ UNION {Range(NullishDefault(projects[k].requiredSkills, <<>>)) :
              k \in 1..Len(projects)} = {"Go", "Rust"}
  /\ UNION {Range(NullishDefault(engineers[k].skills, <<>>)) :
              k \in 1..Len(engineers)} = {"Go"}
  /\ skillGapAnalysis.missingSkills = <<"Rust">>

\* the skills some project requires and the number of engineers listing a skill
RequiredSet ==
  UNION {Range(NullishDefault(projects[k].requiredSkills, <<>>)) :
           k \in 1..Len(projects)}
ListedBy(skill) ==
  Cardinality({k \in 1..Len(engineers) :
                 skill \in Range(NullishDefault(engineers[k].skills, <<>>))})

\* C11: lowCoverageSkills (insufficientSkills) holds exactly the required
\* skills that fewer than 2 engineers list: listed by 0 or 1 engineer is
\* included, by 2 or more excluded, and nothing outside Required is included
C11_LowCoverageSkills ==
  AnalyticsRenders =>
    LET low == skillGapAnalysis.insufficientSkills
    IN /\ Range(low) = {s \in RequiredSet : ListedBy(s) < 2}
       /\ Len(low) = Cardinality(Range(low))

\* C11 witness: one required skill is listed by exactly one engineer and is
\* reported, another is listed by two engineers and is not
C11_Witness ==
  /\ page = "analytics" /\ pc = "done" /\ error = ""
  /\ \E s, t \in RequiredSet :
       /\ ListedBy(s) = 1
       /\ s \in Range(skillGapAnalysis.insufficientSkills)
       /\ ListedBy(t) = 2
       /\ t \notin Range(skillGapAnalysis.insufficientSkills)

\* the required-skills lists of the projects one after the other, and the
\* place where a skill is first seen in that scan
ScannedSkills ==
  LET f[k \in 0..Len(projects)] ==
        IF k = 0 THEN <<>>
        ELSE f[k - 1] \o NullishDefault(projects[k].requiredSkills, <<>>)
  IN f[Len(projects)]
FirstSeen(skill) ==
  CHOOSE k \in 1..Len(ScannedSkills) :
    /\ ScannedSkills[k] = skill
    /\ \A j \in 1..(k - 1) : ScannedSkills[j] # skill

\* C12: skillDemand maps every skill some project requires to the number of
\* projects requiring it; the ranking is by count descending, ties in
\* first-seen order, and the chart takes its first 5 entries
C12_SkillDemand ==
  AnalyticsRenders =>
    /\ {skillDemand[k].skill : k \in 1..Len(skillDemand)} = RequiredSet
    /\ Len(skillDemand) = Cardinality(RequiredSet)
    /\ \A k \in 1..Len(skillDemand) :
         skillDemand[k].count =
           Cardinality({p \in 1..Len(projects) :
              skillDemand[k].skill
                \in Range(NullishDefault(projects[p].requiredSkills, <<>>))})
    /\ Range(rankedSkills) = Range(skillDemand)
    /\ Len(rankedSkills) = Len(skillDemand)
    /\ \A i, j \in 1..Len(rankedSkills) :
         i < j =>
           \/ rankedSkills[i].count > rankedSkills[j].count
           \/ /\ rankedSkills[i].count = rankedSkills[j].count
              /\ FirstSeen(rankedSkills[i].skill) < FirstSeen(rankedSkills[j].skill)
    /\ topSkills = SubSeq(rankedSkills, 1,
                          IF Len(rankedSkills) < 5 THEN Len(rankedSkills) ELSE 5)

\* C13: every project is counted in the one bucket of its status when that is
\* planning, active or completed and in no bucket otherwise; the three
\* counts add up to the number of projects with one of these statuses
C13_StatusDistribution ==
  AnalyticsRenders =>
    LET with(s) == {k \in 1..Len(projects) : projects[k].status = s}
    IN /\ projectStatusData[1] = Cardinality(with("active"))
       /\ projectStatusData[2] = Cardinality(with("planning"))
       /\ projectStatusData[3] = Cardinality(with("completed"))
       /\ projectStatusData[1] + projectStatusData[2] + projectStatusData[3]
            = Cardinality({k \in 1..Len(projects) :
                 projects[k].status \in {"planning", "active", "completed"}})

\* C13 witness: a project with another status next to a completed one
C13_Witness ==
  /\ page = "analytics" /\ pc = "done" /\ error = ""
  /\ \E i, k \in 1..Len(projects) :
       /\ projects[i].status = "on-hold"
       /\ projects[k].status = "completed"
  /\ projectStatusData[1] + projectStatusData[2] + projectStatusData[3]
       < Len(projects)

\* C14: in the month calendar an assignment is in the cell of day d iff
\* start <= d <= end, both ends included (start 10 and end 20: the cells of
\* days 10 to 20 and no other)
C14_MonthCalendar ==
  TimelineRenders =>
    \A i \in 1..DaysPerMonth :
      LET day == view.currentMonth * DaysPerMonth + i
          in == {k \in 1..Len(filteredAssignments) :
                   /\ filteredAssignments[k].startDate <= 2 * day
                   /\ 2 * day <= filteredAssignments[k].endDate}
      IN calendar[i] = SubSeqAt(filteredAssignments, in)

\* the filtered assignments that pass the test start >= now, each against the
\* instant read for it
UpcomingIdx ==
  {k \in 1..Len(filteredAssignments) :
     filteredAssignments[k].startDate >= clockReads[k]}
Occurrences(seq, x) == Cardinality({k \in 1..Len(seq) : seq[k] = x})

C19_RoleProtection ==
  user # None =>
    /\ (page \in {"analytics", "timeline"} /\ user[1].role # "manager")
         => /\ pc = "idle"
            /\ engineers = <<>> /\ projects = <<>> /\ assignments = <<>>
            /\ (page = "analytics" => AnalyticsShows = "Access denied. Managers only.")
            /\ (page = "timeline" => TimelineShows = "Access denied. Managers only.")
    /\ (page = "engineer-dashboard" /\ pc # "idle") => user[1].role = "engineer"

\* C19 witness: an engineer has opened the Timeline
C19_Witness ==
  /\ page = "timeline"
  /\ user # None /\ user[1].role = "engineer"
  /\ pc = "idle"
  /\ error = "Access denied. Managers only."

\* C20: every assignment in the "Upcoming Assignments" list starts within
\* the next 30 days: now <= start date <= now + 30 days
C20_Within30Days ==
  TimelineRenders =>
    \A k \in 1..Len(upcomingAssignments) :
      /\ upcomingAssignments[k].startDate >= clockReads[1]
      /\ upcomingAssignments[k].startDate
           <= clockReads[Len(clockReads)] + ThirtyDays

\* the least number of whole days that covers the span, 0 when the end is
\* before the start
WholeDays(startDate, endDate) ==
  IF endDate < startDate THEN 0
  ELSE CHOOSE n \in 0..(endDate - startDate) :
         /\ n * Day >= endDate - startDate
         /\ (n - 1) * Day < endDate - startDate

\* C16: the duration shown is the ceiling of (end - start) in whole days and
\* is never negative: 0 when end < start
C16_DurationDays ==
  /\ ProjectsRenders =>
       \A i \in 1..Len(projects) :
         /\ projectCards[i].duration >= 0
         /\ projectCards[i].duration
              = WholeDays(projects[i].startDate, projects[i].endDate)
  /\ AssignmentsRenders =>
       \A k \in 1..Len(assignments) :
         assignmentDurations[k] # None =>
           /\ assignmentDurations[k][1] >= 0
           /\ assignmentDurations[k][1]
                = WholeDays(assignments[k].startDate[1], assignments[k].endDate[1])

\* C17: the progress is (now - start) / (end - start) clamped to 0..100%, is
\* always a number inside that range, and is 100% whenever end = start,
\* whatever now is
C17_Progress ==
  ProjectsRenders =>
    \A i \in 1..Len(projects) : \A c \in 1..2 :
      LET start == projects[i].startDate
          end == projects[i].endDate
          now == clockReads[i][c]
          progress == IF c = 1 THEN projectCards[i].progressText
                      ELSE projectCards[i].progressBar
          \* 100 * (now - start) / (end - start) as num / den with den > 0
          num == IF end > start THEN 100 * (now - start) ELSE 100 * (start - now)
          den == IF end > start THEN end - start ELSE start - end
      IN /\ progress.kind = "finite"
         /\ 0 <= progress.num /\ progress.num <= 100 * progress.den
         /\ IF end = start THEN JsEquals(progress, 100, 1)
            ELSE IF num < 0 THEN JsEquals(progress, 0, 1)
            ELSE IF num > 100 * den THEN JsEquals(progress, 100, 1)
            ELSE JsEquals(progress, num, den)

KeptIdx ==
  {k \in 1..Len(assignments) :
     /\ (view.selectedProject = None
          \/ assignments[k].projectId._id = view.selectedProject[1])
     /\ (view.selectedEngineer = None
          \/ assignments[k].engineerId._id = view.selectedEngineer[1])}

\* C21: the Timeline keeps an assignment iff each filter is "all" or equals
\* the id of the assignment's reference, a bare id string and an expanded
\* record alike; with both filters "all" the filtered list is the full list;
\* every day cell and the upcoming list hold filtered assignments only
C21_TimelineFilter ==
  TimelineRenders =>
    /\ filteredAssignments = SubSeqAt(assignments, KeptIdx)
    /\ (view.selectedProject = None /\ view.selectedEngineer = None)
         => filteredAssignments = assignments
    /\ \A i \in 1..DaysPerMonth : \A x \in Range(calendar[i]) :
         Occurrences(calendar[i], x) <= Occurrences(filteredAssignments, x)
    /\ \A x \in Range(upcomingAssignments) :
         Occurrences(upcomingAssignments, x) <= Occurrences(filteredAssignments, x)

\* C21 witness: an engineer is selected, the assignment that names the
\* engineer by a bare id string is kept and shown in a day cell, and the
\* assignment of the other engineer is dropped
C21_Witness ==
  /\ TimelineRenders /\ pc = "done"
  /\ view.selectedEngineer # None
  /\ Len(assignments) = 2
  /\ Len(filteredAssignments) = 1
  /\ filteredAssignments[1].engineerId.shape = "string"
  /\ \E i \in 1..DaysPerMonth : calendar[i] = filteredAssignments

C23_DialogShowsSelected ==
  (page = "projects" /\ view.showEngineersModal /\ ~view.loadingEngineers
     /\ view.alert = "")
    => view.suitableEngineers
         = FindSuitableEngineers(view.selectedProject[1], view.db)

\* the capacity fields of the stored engineers come from the stored
\* assignments
FromStoredAssignments(pg, engs, assigns, reads) ==
  \A i \in 1..Len(engs) :
    engs[i].currentCapacity =
      SumAllocation(IF pg = "analytics"
                    THEN AnalyticsEngineerAssignments(engs[i], assigns, reads[i])
                    ELSE DashboardEngineerAssignments(engs[i], assigns, reads[i]))

\* C24: when the fetch of the Analytics page or of the manager's Dashboard
\* ends in a failure, the error message is set and engineers, projects and
\* assignments stay as they were; when it succeeds the three are set in one
\* step from one batch of responses
C24_SnapshotAllOrNothing ==
  [][(page \in {"analytics", "dashboard"} /\ page' = page
        /\ user # None /\ user[1].role = "manager"
        /\ pc = "fetching" /\ pc' = "done")
     => \/ /\ error' \in {"Failed to load analytics data",
                            "Failed to load dashboard data"}
           /\ engineers' = engineers
           /\ projects' = projects
           /\ assignments' = assignments
        \/ /\ error' = ""
           /\ engineers' # engineers
           /\ projects' # projects
           /\ assignments' # assignments
           /\ FromStoredAssignments(page, engineers', assignments', clockReads')
           /\ ~loading']_vars

\* C24 witness: the manager's Analytics fetch has failed and the three lists
\* are still empty
C24_Witness ==
  /\ page = "analytics" /\ user # None /\ user[1].role = "manager"
  /\ pc = "done" /\ ~loading
  /\ error = "Failed to load analytics data"
  /\ engineers = <<>> /\ projects = <<>> /\ assignments = <<>>

\* C25: the Assignments page raises "Failed to create assignment" only when
\* the createAssignment request itself failed; once that request has
\* succeeded the dialog is closed, the form is reset and the handler never
\* raises the alert; the same for handleEdit and handleDelete
C25_FailureAlertOnlyOnFailure ==
  [][(page = "assignments" /\ page' = page)
     => \A h \in Handlers :
          /\ (view.alert = "" /\ view'.alert = FailureAlert(h))
               => view.step[h] = "mutating"
          /\ (view.step[h] = "mutating" /\ view'.step[h] = "refreshing")
               => /\ ~view'.show[h]
                  /\ h = "create" => view'.createForm = DefaultCreateForm]_vars

\* C26: a page whose fetch has set loading sets it back to false, whether
\* the requests succeed or fail, so no page stays in its loading state; and
\* when a handler of the Assignments page has finished, its flag creating /
\* updating / deleting is false again
C26_LoadingEnds ==
  /\ loading ~> ~loading
  /\ [](page = "assignments"
         => \A h \in Handlers : view.step[h] = "idle" => ~view.busy[h])

\* C26 witness: the fetch of the Assignments page has failed and the page no
\* longer loads
C26_Witness ==
  /\ page = "assignments" /\ pc = "done"
  /\ error = "Failed to load assignments"
  /\ ~loading

\* C27: while the engineer dashboard shows its content, every assignment is
\* in exactly one of activeAssignments and completedAssignments: none is in
\* both, and the two counts of the status chart sum to the number of
\* assignments.
C27_ActiveCompletedPartition ==
  (page = "engineer-dashboard" /\ EngineerDashboardShows = "content") =>
    /\ \A j \in 1..Len(assignments) :
         (assignments[j].endDate >= clockReads[1][j])
           # (assignments[j].endDate < clockReads[2][j])
    /\ assignmentStatusData[1] + assignmentStatusData[2] = Len(assignments)

\* what the claim says of the label shown for the end date e at the instant
\* now: "Completed" iff e < now, "Ending Soon" iff 0 <= e - now < 7 days,
\* "Active" iff e - now >= 7 days, exactly one of the three, and "Completed"
\* iff the capacity predicate does not count the assignment as current
LabelAsClaimed(label, e, now) ==
  /\ (label = "Completed") <=> (e < now)
  /\ (label = "Ending Soon") <=> (0 <= e - now /\ e - now < 7 * Day)
  /\ (label = "Active") <=> (e - now >= 7 * Day)
  /\ Cardinality({l \in {"Completed", "Ending Soon", "Active"} : l = label}) = 1
  /\ (label = "Completed") <=> ~CountsAsCurrent(e, now)

\* the Assignments page shows badges for which the clock was read
BadgesShown ==
  /\ AssignmentsRenders
  /\ assignments # <<>>
  /\ Len(clockReads) = Len(assignments)

\* C28: every status badge carries the label the claim's three-way
\* classification gives for its end date and the instant its call read, on
\* the Assignments page and on the upcoming cards of the Timeline; for the
\* same end date and instant the two pages give the same label; and the
\* label is "Completed" exactly when the capacity predicate (end >= now) does
\* not count the assignment as current.
C28_StatusLabel ==
  /\ BadgesShown =>
       \A j \in 1..Len(assignments) :
         LET e == assignments[j].endDate[1]
             now == clockReads[j][2]
         IN /\ LabelAsClaimed(statusTexts[j], e, now)
            /\ getStatusTextTimeline(e, now) = statusTexts[j]
  /\ TimelineRenders =>
       \A k \in 1..Len(upcomingAssignments) :
         LET e == upcomingAssignments[k].endDate
             now == BadgeRead(clockReads, Len(assignments), k)
         IN /\ LabelAsClaimed(upcomingStatus[k], e, now)
            /\ getStatusText(Some(e), now) = upcomingStatus[k]

\* the Assignments page shows a "Completed" badge next to an "Ending Soon"
\* badge whose end date is less than a week after its instant, or next to an
\* "Active" badge whose end date is exactly a week after it
C28_Witness ==
  /\ BadgesShown
  /\ \E j \in 1..Len(assignments) : statusTexts[j] = "Completed"
  /\ \E j \in 1..Len(assignments) :
       \/ /\ statusTexts[j] = "Active"
          /\ assignments[j].endDate[1] - clockReads[j][2] = 7 * Day
       \/ /\ statusTexts[j] = "Ending Soon"
          /\ assignments[j].endDate[1] - clockReads[j][2] = 7 * Day - 1

====
